---- MODULE Spec2Model ----
(***************************************************************************)
(* Crypto-Blitz-Nexus: the per-asset position lifecycle, the admission     *)
(* gate, the outcome recorder and the store synchronisation of             *)
(*   - the primary engine   (nexus_trading_engine_complete.js),            *)
(*   - the exit-monitor     (nexus_exit_engine.js),                        *)
(*   - the shared store     (nexus_api_server.js).                         *)
(*                                                                         *)
(* Prices are integers in units of 1/100000 of a currency unit, so that    *)
(* every level the code derives from an entry price (0.05 % band, 0.5 %    *)
(* stop, 0.75 % / 1.25 % targets) is exact for the prices used here.       *)
(* Profits are integers in hundredths of a currency unit.                  *)
(* One step of a process is the code it runs between two awaits of real    *)
(* I/O: JavaScript runs that stretch without interleaving.                 *)
(***************************************************************************)
EXTENDS Integers, Sequences, FiniteSets, TLC

VARIABLES
    currentPrices,   \* engine: currentPrices[asset], 0 before the first tick of the feed
    priceHistory,    \* engine: priceHistory[asset].length, counted up to MinSamples
    sinceSignal,     \* engine: time since lastSignalTime[asset], in 60 s units, saturating
    sinceAdmit,      \* engine: time since the timestamp of the asset's newest PositionSetup
    activeTrades,    \* engine: activeTrades[asset], <<>> for null, <<setup>> otherwise
    tradeDatabase,   \* engine: tradeDatabase.trades and tradeDatabase.performance
    ticks,           \* engine: the adaptiveScan invocations in flight, each at an await
    nextTs,          \* engine: number of positions opened so far (Date.now() of the next)
    runs,            \* engine: number of times main() has started
    net,             \* POST /api/data requests in flight
    store,           \* the store's data file
    manual,          \* store: a POST /api/trades/close before its write or its answer
    monitor,         \* exit-monitor: this.database.data, the objects it loaded, isRunning
    cycles,          \* exit-monitor: the runCycle invocations in flight, each at an await
    probe            \* the caller of an exported function: its arguments and results

engineVars == <<currentPrices, priceHistory, sinceSignal, sinceAdmit, activeTrades, tradeDatabase, ticks, nextTs,
               runs>>
monitorVars == <<monitor, cycles>>
vars == <<engineVars, monitorVars, net, store, manual, probe>>

----------------------------------------------------------------------------
(* Bounds of the model *)

MaxTicks == 2        \* adaptiveScan invocations that overlap
MaxCycles == 2       \* runCycle invocations that overlap
MaxOpens == 2        \* positions the engine opens in one run
MaxCloses == 2       \* closes a caller of recordTradeOutcome reports
MaxCalls == 3        \* calls of recordTradeOutcome for one close
MaxRuns == 2         \* starts of the engine process

(* Program constants *)

RISK_PER_TRADE == 10
CooldownUnits == 1   \* 60000 ms, in units of 60000 ms
MinSamples == 3      \* samples calculateMomentum averages over

Assets == <<"btc", "eth">>
Asset == {"btc", "eth"}

Scale == 1000 * 100          \* price units per currency unit
PnLScale == 10 * 10          \* profit units per currency unit
DupDistance == Scale \div 2  \* 0.5, the duplicate check's price distance

P(units, cents) == units * Scale + cents * (Scale \div 100)

FeedPrices == {P(100, 0), P(100, 80), P(101, 30)}
Momenta == {-1, 1}
Directions == {"BULLISH", "BEARISH"}
Outcomes == {"WIN", "LOSS", "BREAKEVEN"}
TickIds == 1..MaxTicks
CycleIds == 1..MaxCycles

RISK_CONFIGS ==
    [conservative |-> [stopPct |-> 5, target1 |-> 15, target2 |-> 25, minConfidence |-> 8],
     aggressive   |-> [stopPct |-> 3, target1 |-> 10, target2 |-> 20, minConfidence |-> 6]]
    \* stopPct in thousandths, target1 and target2 in tenths

riskMode == "conservative"

Abs(x) == IF x < 0 THEN -x ELSE x

----------------------------------------------------------------------------
(* Performance aggregate.  Ratios are kept exact as <<numerator, denominator>>. *)

Ratio(n, d) == <<n, d>>
RatioZero == <<0, 1>>
Infinity == <<1, 0>>

DefaultPerformance ==
    [totalTrades |-> 0, winners |-> 0, losers |-> 0, breakevenTrades |-> 0,
     totalProfit |-> 0, winRate |-> RatioZero, profitFactor |-> RatioZero,
     avgWin |-> RatioZero, avgLoss |-> RatioZero, breakevenRate |-> RatioZero]

DefaultData ==
    [trades |-> <<>>,
     activeTrades |-> [a \in Asset |-> <<>>],
     performance |-> DefaultPerformance]

RECURSIVE SumAbsProfit(_, _)
SumAbsProfit(trades, outcome) ==
    IF trades = <<>> THEN 0
    ELSE (IF Head(trades).outcome = outcome THEN Abs(Head(trades).profit) ELSE 0)
         + SumAbsProfit(Tail(trades), outcome)

RECURSIVE SumProfit(_)
SumProfit(trades) ==
    IF trades = <<>> THEN 0 ELSE Head(trades).profit + SumProfit(Tail(trades))

CountOutcome(trades, outcome) ==
    Cardinality({i \in 1..Len(trades) : trades[i].outcome = outcome})

----------------------------------------------------------------------------
(* Setup levels *)

\* Levels that are not mirrored for BEARISH.
calculateSetupLevelsUnmirrored(price, direction, config) ==
    [entryMin |-> price - (price * 5) \div 10000,
     entryMax |-> price + (price * 5) \div 10000,
     stop |-> price - (price * config.stopPct) \div 1000,
     t1 |-> price + (price * config.stopPct * config.target1) \div 10000,
     t2 |-> price + (price * config.stopPct * config.target2) \div 10000,
     entryPrice |-> price]

\* calculateSetupLevels(asset, price, direction, config)
calculateSetupLevels(price, direction, config) ==
    LET band == (price * 5) \div 10000
        stopD == (price * config.stopPct) \div 1000
        t1D == (price * config.stopPct * config.target1) \div 10000
        t2D == (price * config.stopPct * config.target2) \div 10000
    IN  [entryMin |-> IF direction = "BULLISH" THEN price - band ELSE price + band,
         entryMax |-> IF direction = "BULLISH" THEN price + band ELSE price - band,
         stop |-> IF direction = "BULLISH" THEN price - stopD ELSE price + stopD,
         t1 |-> IF direction = "BULLISH" THEN price + t1D ELSE price - t1D,
         t2 |-> IF direction = "BULLISH" THEN price + t2D ELSE price - t2D,
         entryPrice |-> price]

----------------------------------------------------------------------------
(* The primary engine *)

NewSetup(price, direction, confidence, ts) ==
    LET l == calculateSetupLevels(price, direction, RISK_CONFIGS[riskMode])
    IN  [ts |-> ts, direction |-> direction, entryPrice |-> price,
         entryMin |-> l.entryMin, entryMax |-> l.entryMax,
         stop |-> l.stop, originalStop |-> 0, t1 |-> l.t1, t2 |-> l.t2,
         reachedTarget1 |-> FALSE, reachedTarget2 |-> FALSE,
         recorded |-> FALSE, confidence |-> confidence,
         status |-> "ACTIVE", wrapped |-> FALSE]

\* (trade.entry?.min + trade.entry?.max) / 2 || trade.entryPrice
EntryAvg(trade) == (trade.entryMin + trade.entryMax) \div 2

\* The four ifs with the breakeven stop tested before target 2.
EngineRuleBreakevenFirst(trade, price) ==
    LET bull == trade.direction = "BULLISH"
        bear == trade.direction = "BEARISH"
        stopPrice == IF trade.originalStop # 0 THEN trade.originalStop ELSE trade.stop
    IN  IF ~trade.reachedTarget1
           /\ ((bull /\ price >= trade.t1) \/ (bear /\ price <= trade.t1))
        THEN "T1"
        ELSE IF trade.reachedTarget1 /\ ~trade.reachedTarget2
                /\ ((bull /\ price <= trade.stop) \/ (bear /\ price >= trade.stop))
        THEN "BREAKEVEN"
        ELSE IF trade.reachedTarget1 /\ ~trade.reachedTarget2
                /\ ((bull /\ price >= trade.t2) \/ (bear /\ price <= trade.t2))
        THEN "WIN"
        ELSE IF ~trade.reachedTarget1
                /\ ((bull /\ price <= stopPrice) \/ (bear /\ price >= stopPrice))
        THEN "LOSS"
        ELSE "NONE"

\* The four ifs with the stop after target 1 closing the position as a LOSS.
EngineRuleLossAfterTarget1(trade, price) ==
    LET bull == trade.direction = "BULLISH"
        bear == trade.direction = "BEARISH"
        stopPrice == IF trade.originalStop # 0 THEN trade.originalStop ELSE trade.stop
    IN  IF ~trade.reachedTarget1
           /\ ((bull /\ price >= trade.t1) \/ (bear /\ price <= trade.t1))
        THEN "T1"
        ELSE IF trade.reachedTarget1 /\ ~trade.reachedTarget2
                /\ ((bull /\ price >= trade.t2) \/ (bear /\ price <= trade.t2))
        THEN "WIN"
        ELSE IF trade.reachedTarget1 /\ ~trade.reachedTarget2
                /\ ((bull /\ price <= trade.stop) \/ (bear /\ price >= trade.stop))
        THEN "LOSS"
        ELSE IF ~trade.reachedTarget1
                /\ ((bull /\ price <= stopPrice) \/ (bear /\ price >= stopPrice))
        THEN "LOSS"
        ELSE "NONE"

\* The four ifs with target 2 closing a position that has not reached target 1.
EngineRuleWinAtTarget2(trade, price) ==
    LET bull == trade.direction = "BULLISH"
        bear == trade.direction = "BEARISH"
        stopPrice == IF trade.originalStop # 0 THEN trade.originalStop ELSE trade.stop
    IN  IF ~trade.reachedTarget2
           /\ ((bull /\ price >= trade.t2) \/ (bear /\ price <= trade.t2))
        THEN "WIN"
        ELSE IF ~trade.reachedTarget1
                /\ ((bull /\ price >= trade.t1) \/ (bear /\ price <= trade.t1))
        THEN "T1"
        ELSE IF trade.reachedTarget1 /\ ~trade.reachedTarget2
                /\ ((bull /\ price <= trade.stop) \/ (bear /\ price >= trade.stop))
        THEN "BREAKEVEN"
        ELSE IF ~trade.reachedTarget1
                /\ ((bull /\ price <= stopPrice) \/ (bear /\ price >= stopPrice))
        THEN "LOSS"
        ELSE "NONE"

\* The rule updateTradeStatus fires for the position at the price: its four ifs in order.
EngineRule(trade, price) ==
    LET bull == trade.direction = "BULLISH"
        bear == trade.direction = "BEARISH"
        stopPrice == IF trade.originalStop # 0 THEN trade.originalStop ELSE trade.stop
    IN  IF ~trade.reachedTarget1
           /\ ((bull /\ price >= trade.t1) \/ (bear /\ price <= trade.t1))
        THEN "T1"
        ELSE IF trade.reachedTarget1 /\ ~trade.reachedTarget2
                /\ ((bull /\ price >= trade.t2) \/ (bear /\ price <= trade.t2))
        THEN "WIN"
        ELSE IF trade.reachedTarget1 /\ ~trade.reachedTarget2
                /\ ((bull /\ price <= trade.stop) \/ (bear /\ price >= trade.stop))
        THEN "BREAKEVEN"
        ELSE IF ~trade.reachedTarget1
                /\ ((bull /\ price <= stopPrice) \/ (bear /\ price >= stopPrice))
        THEN "LOSS"
        ELSE "NONE"

\* A target 1 branch that also marks the position recorded.
ArmTarget1MarksRecorded(trade) ==
    [trade EXCEPT !.reachedTarget1 = TRUE, !.originalStop = trade.stop,
                  !.stop = EntryAvg(trade), !.recorded = TRUE]

\* trade.reachedTarget1 = true; trade.originalStop = trade.stop; trade.stop = entryAvg
ArmTarget1(trade) ==
    [trade EXCEPT !.reachedTarget1 = TRUE, !.originalStop = trade.stop,
                  !.stop = EntryAvg(trade)]

\* A P&L that always takes the 3:1 fallback for a WIN.
RealizedPnLFallbackOnly(setup, outcome) ==
    IF outcome = "WIN" THEN RISK_PER_TRADE * 3 * PnLScale
    ELSE IF outcome = "LOSS" THEN -(RISK_PER_TRADE * PnLScale)
    ELSE 0

\* The P&L of recordTradeOutcome, in both processes.
RealizedPnL(setup, outcome) ==
    IF outcome = "WIN"
    THEN LET stopDistance == Abs(setup.stop - setup.entryPrice)
             targetDistance == Abs(setup.t2 - setup.entryPrice)
         IN  IF stopDistance > 0 /\ targetDistance > 0
             THEN (RISK_PER_TRADE * PnLScale * targetDistance) \div stopDistance
             ELSE RISK_PER_TRADE * 3 * PnLScale
    ELSE IF outcome = "LOSS" THEN -(RISK_PER_TRADE * PnLScale)
    ELSE 0

IsTerminal(outcome) == outcome \notin {"", "ACTIVE", "OPEN"}

\* A recorder without the database check for duplicates.
DuplicateNeverExists(trades, asset, setup, outcome) == FALSE

\* tradeDatabase.trades.some(t => t.asset === asset && |entry - entry| < 0.5 && t.outcome === outcome)
DuplicateExists(trades, asset, setup, outcome) ==
    \E i \in 1..Len(trades) :
        /\ trades[i].asset = asset
        /\ Abs(trades[i].setup.entryPrice - setup.entryPrice) < DupDistance
        /\ trades[i].outcome = outcome

\* An update of the performance that forgets the outcome counters.
EnginePerformanceTotalOnly(perf, trades, outcome) ==
    [perf EXCEPT !.totalTrades = Len(trades)]

\* The engine's update of tradeDatabase.performance after the push.
EnginePerformance(perf, trades, outcome) ==
    LET totalWins == SumAbsProfit(trades, "WIN")
        totalLosses == SumAbsProfit(trades, "LOSS")
        winners == perf.winners + (IF outcome = "WIN" THEN 1 ELSE 0)
        losers == perf.losers + (IF outcome = "LOSS" THEN 1 ELSE 0)
        breakevens == perf.breakevenTrades + (IF outcome = "BREAKEVEN" THEN 1 ELSE 0)
    IN  [perf EXCEPT
            !.totalTrades = Len(trades),
            !.winners = winners,
            !.losers = losers,
            !.breakevenTrades = breakevens,
            !.avgWin = IF outcome = "WIN"
                       THEN (IF winners > 0 THEN Ratio(totalWins, winners) ELSE RatioZero)
                       ELSE @,
            !.avgLoss = IF outcome = "LOSS"
                        THEN (IF losers > 0 THEN Ratio(totalLosses, losers) ELSE RatioZero)
                        ELSE @,
            !.winRate = IF Len(trades) > 0 THEN Ratio(winners * 100, Len(trades))
                        ELSE RatioZero,
            !.profitFactor = IF totalLosses > 0 THEN Ratio(totalWins, totalLosses)
                             ELSE IF totalWins > 0 THEN Infinity ELSE RatioZero]

\* A trade list as JSON carries it: no object identity.
Serialized(trades) == [i \in 1..Len(trades) |-> [trades[i] EXCEPT !.alias = FALSE]]

\* A write to the position object in the asset's slot, seen through every
\* TradeRecord whose setup is that same object.
WriteThrough(trades, asset, setup) ==
    [i \in 1..Len(trades) |->
        IF trades[i].asset = asset /\ trades[i].alias
        THEN [trades[i] EXCEPT !.setup = setup] ELSE trades[i]]

\* The slot lets go of its object: no tick holds it across an await.
Unlink(trades, asset) ==
    [i \in 1..Len(trades) |->
        IF trades[i].asset = asset THEN [trades[i] EXCEPT !.alias = FALSE] ELSE trades[i]]

\* The engine's state as the operators below pass it along.
\* env.cap bounds the POSTs in flight and env.opens the positions opened.
EngineState(env) ==
    [active |-> activeTrades, trades |-> tradeDatabase.trades,
     perf |-> tradeDatabase.performance, since |-> sinceSignal, admit |-> sinceAdmit,
     net |-> net, ts |-> nextTs, cap |-> env.cap, opens |-> env.opens]

EngineBlob(S) ==
    [trades |-> Serialized(S.trades), activeTrades |-> S.active, performance |-> S.perf]

\* saveToVPS up to its await: the POST leaves with the state as it is now.  When S.cap
\* requests are in flight already, or the store is down (S.cap = 0), the POST fails at
\* once; the catch logs it.
saveToVPS(S) ==
    [S EXCEPT !.net = IF Cardinality(@) < S.cap
                      THEN @ \cup {[from |-> "engine", blob |-> EngineBlob(S)]}
                      ELSE @]

\* A recorder that does not look at the position's recorded flag.
RecordGuardIgnoresFlag(trades, asset, setup, outcome) ==
    IF ~IsTerminal(outcome) THEN "not_terminal"
    ELSE IF DuplicateExists(trades, asset, setup, outcome) THEN "duplicate"
    ELSE ""

\* The three guards of recordTradeOutcome: which one returns early, "" when none does.
RecordGuard(trades, asset, setup, outcome) ==
    IF ~IsTerminal(outcome) THEN "not_terminal"
    ELSE IF setup.recorded THEN "recorded"
    ELSE IF DuplicateExists(trades, asset, setup, outcome) THEN "duplicate"
    ELSE ""

\* A recorder that snapshots the position with target 1 not reached.
MarkRecordedResetsTarget1(setup) ==
    [setup EXCEPT !.recorded = TRUE, !.reachedTarget1 = FALSE]

\* setup.recorded = true
MarkRecorded(setup) == [setup EXCEPT !.recorded = TRUE]

\* A recorder that saves before it returns early.
recordTradeOutcomeSavesAnyway(S, asset, setup, outcome, inSlot) ==
    IF RecordGuard(S.trades, asset, setup, outcome) # ""
    THEN [S |-> saveToVPS(S), saved |-> FALSE, setup |-> setup]
    ELSE LET marked == MarkRecorded(setup)
             trades == Append(S.trades,
                              [asset |-> asset, setup |-> marked, outcome |-> outcome,
                               profit |-> RealizedPnL(marked, outcome),
                               timestamp |-> marked.ts, closedBy |-> "",
                               alias |-> inSlot])
         IN  [S |-> saveToVPS([S EXCEPT
                         !.active[asset] = IF inSlot THEN <<marked>> ELSE @,
                         !.trades = trades,
                         !.perf = EnginePerformance(S.perf, trades, outcome)]),
              saved |-> TRUE, setup |-> marked]

\* recordTradeOutcome(asset, setup, outcome, profit) up to its await.  .saved tells
\* whether it got as far as saveToVPS, .setup is the caller's object afterwards; inSlot
\* tells that the object is the one in activeTrades[asset] (updateTradeStatus passes it).
recordTradeOutcome(S, asset, setup, outcome, inSlot) ==
    IF RecordGuard(S.trades, asset, setup, outcome) # ""
    THEN [S |-> S, saved |-> FALSE, setup |-> setup]
    ELSE LET marked == MarkRecorded(setup)
             trade == [asset |-> asset, setup |-> marked, outcome |-> outcome,
                       profit |-> RealizedPnL(marked, outcome),
                       timestamp |-> marked.ts, closedBy |-> "", alias |-> inSlot]
             before == IF inSlot THEN WriteThrough(S.trades, asset, marked) ELSE S.trades
             trades == Append(before, trade)
             S1 == [S EXCEPT !.active[asset] = IF inSlot THEN <<marked>> ELSE @,
                             !.trades = trades,
                             !.perf = EnginePerformance(S.perf, trades, outcome)]
         IN  [S |-> saveToVPS(S1), saved |-> TRUE, setup |-> marked]

\* A close that empties the slot and does not save.
ClearSlotUnsaved(S, asset) ==
    [S EXCEPT !.active[asset] = <<>>, !.trades = Unlink(S.trades, asset)]

\* activeTrades[asset] = null; tradeDatabase.activeTrades[asset] = null; saveToVPS()
ClearSlot(S, asset) ==
    saveToVPS([S EXCEPT !.active[asset] = <<>>, !.trades = Unlink(S.trades, asset)])

\* An admission gate that takes every slot for empty.
SlotAlwaysEmpty(S, asset) == TRUE

\* !activeTrades[asset], as adaptiveScan and scanForSignals test it before admitting.
SlotEmpty(S, asset) == S.active[asset] = <<>>

Yield(S, pc, i) == [S |-> S, pc |-> pc, i |-> IF pc = "idle" THEN 1 ELSE i, ok |-> TRUE]

RECURSIVE RunUpdate(_, _, _, _)
RECURSIVE RunScan(_, _, _, _)
RECURSIVE RunNext(_, _, _, _)

\* adaptiveScan's loop body for Assets[i], from updateTradeStatus on, until the next await.
RunUpdate(S, i, momentum, roll) ==
    LET asset == Assets[i]
        price == currentPrices[asset]
    IN  IF price <= 0 THEN RunNext(S, i, momentum, roll)
        ELSE IF S.active[asset] = <<>> THEN RunScan(S, i, momentum, roll)
        ELSE LET trade == S.active[asset][1]
                 rule == IF trade.wrapped THEN "NONE" ELSE EngineRule(trade, price)
             IN  IF rule = "NONE" THEN RunScan(S, i, momentum, roll)
                 ELSE IF rule = "T1"
                 THEN LET armed == ArmTarget1(trade)
                      IN  Yield(saveToVPS([S EXCEPT
                                    !.active[asset] = <<armed>>,
                                    !.trades = WriteThrough(S.trades, asset, armed)]),
                                "t1_save", i)
                 ELSE LET r == recordTradeOutcome(S, asset, trade, rule, TRUE)
                      IN  IF r.saved THEN Yield(r.S, "rec_save", i)
                          ELSE Yield(ClearSlot(r.S, asset), "clr_save", i)

\* if (!activeTrades[asset]) await scanForSignals(asset, currentPrices[asset])
RunScan(S, i, momentum, roll) ==
    LET asset == Assets[i]
        price == currentPrices[asset]
        direction == IF momentum[asset] > 0 THEN "BULLISH" ELSE "BEARISH"
        confidence == 8 + roll[asset]
    IN  IF ~SlotEmpty(S, asset) THEN RunNext(S, i, momentum, roll)
        ELSE IF S.since[asset] < CooldownUnits THEN RunNext(S, i, momentum, roll)
        ELSE IF confidence < RISK_CONFIGS[riskMode].minConfidence
        THEN RunNext(S, i, momentum, roll)
        ELSE IF S.ts >= S.opens THEN [S |-> S, pc |-> "idle", i |-> i, ok |-> FALSE]
        ELSE Yield(saveToVPS([S EXCEPT
                        !.active[asset] =
                            <<NewSetup(price, direction, confidence, S.ts + 1)>>,
                        !.trades = Unlink(S.trades, asset),
                        !.admit[asset] = 0,
                        !.ts = S.ts + 1]),
                   "gen_save", i)

RunNext(S, i, momentum, roll) ==
    IF i < Len(Assets) THEN RunUpdate(S, i + 1, momentum, roll)
    ELSE Yield(S, "idle", i)

\* A tick that, back from the save of a TradeRecord, clears the slot and evaluates the
\* admission without waiting for the save of the clear.
RunResumeScansAtOnce(S, pc, i, momentum, roll) ==
    LET asset == Assets[i]
    IN  IF pc = "rec_save" THEN RunScan(ClearSlot(S, asset), i, momentum, roll)
        ELSE IF pc = "gen_save"
        THEN RunNext([S EXCEPT !.since[asset] = 0], i, momentum, roll)
        ELSE RunScan(S, i, momentum, roll)

\* What a tick does when the await it is at returns.
RunResume(S, pc, i, momentum, roll) ==
    LET asset == Assets[i]
    IN  IF pc = "t1_save" THEN RunScan(S, i, momentum, roll)
        ELSE IF pc = "rec_save" THEN Yield(ClearSlot(S, asset), "clr_save", i)
        ELSE IF pc = "clr_save" THEN RunScan(S, i, momentum, roll)
        ELSE RunNext([S EXCEPT !.since[asset] = 0], i, momentum, roll)

Commit(t, r) ==
    /\ r.ok
    /\ activeTrades' = r.S.active
    /\ tradeDatabase' = [trades |-> r.S.trades, performance |-> r.S.perf]
    /\ sinceSignal' = r.S.since
    /\ sinceAdmit' = r.S.admit
    /\ net' = r.S.net
    /\ nextTs' = r.S.ts
    /\ ticks' = [ticks EXCEPT ![t] = [pc |-> r.pc, i |-> r.i]]

\* setInterval(adaptiveScan, SCAN_INTERVAL_MS) fires while earlier scans may be at an await.
TickStart(t, rolls, env) ==
    /\ ticks[t].pc = "idle"
    /\ \A u \in DOMAIN ticks : u < t => ticks[u].pc # "idle"
    /\ \E momentum \in [Asset -> Momenta], roll \in [Asset -> rolls] :
          Commit(t, RunUpdate(EngineState(env), 1, momentum, roll))
    /\ UNCHANGED <<currentPrices, priceHistory, runs, monitorVars, store, manual, probe>>

\* The await of a saveToVPS returns (the POST answered, failed or timed out).  With
\* env.patient no POST times out: the await returns when the store has answered.
TickResume(t, rolls, env) ==
    /\ ticks[t].pc # "idle"
    /\ env.patient => \A m \in net : m.from # "engine"
    /\ \E momentum \in [Asset -> Momenta], roll \in [Asset -> rolls] :
          Commit(t, RunResume(EngineState(env), ticks[t].pc, ticks[t].i, momentum, roll))
    /\ UNCHANGED <<currentPrices, priceHistory, runs, monitorVars, store, manual, probe>>

\* updatePrice(asset, price, change) on a ticker message.
updatePrice(asset, price) ==
    /\ price > 0
    /\ currentPrices' = [currentPrices EXCEPT ![asset] = price]
    /\ priceHistory' = [priceHistory EXCEPT ![asset] = IF @ < MinSamples THEN @ + 1 ELSE @]
    /\ UNCHANGED <<sinceSignal, sinceAdmit, activeTrades, tradeDatabase, ticks, nextTs, runs>>
    /\ UNCHANGED <<monitorVars, net, store, manual, probe>>

\* The engine process dies and is started again: main() begins with the module's
\* initial values and awaits loadFromVPS, which copies the store's blob over them when
\* the GET answers (loaded) and leaves them as they are when it fails.
EngineRestart(loaded) ==
    /\ runs < MaxRuns
    /\ runs' = runs + 1
    /\ currentPrices' = [a \in Asset |-> 0]
    /\ priceHistory' = [a \in Asset |-> 0]
    /\ sinceSignal' = [a \in Asset |-> CooldownUnits]
    /\ ticks' = [t \in DOMAIN ticks |-> [pc |-> "idle", i |-> 1]]
    /\ activeTrades' = IF loaded THEN store.activeTrades ELSE [a \in Asset |-> <<>>]
    /\ tradeDatabase' = IF loaded
                        THEN [trades |-> store.trades, performance |-> store.performance]
                        ELSE [trades |-> <<>>, performance |-> DefaultPerformance]
    /\ UNCHANGED <<sinceAdmit, nextTs, monitorVars, net, store, manual, probe>>

\* Sixty seconds pass.
TimePasses ==
    /\ \E a \in Asset : sinceSignal[a] < CooldownUnits \/ sinceAdmit[a] < CooldownUnits
    /\ sinceSignal' = [a \in Asset |->
                          IF sinceSignal[a] < CooldownUnits THEN sinceSignal[a] + 1
                          ELSE sinceSignal[a]]
    /\ sinceAdmit' = [a \in Asset |->
                         IF sinceAdmit[a] < CooldownUnits THEN sinceAdmit[a] + 1
                         ELSE sinceAdmit[a]]
    /\ UNCHANGED <<currentPrices, priceHistory, activeTrades, tradeDatabase, ticks, nextTs,
                   runs>>
    /\ UNCHANGED <<monitorVars, net, store, manual, probe>>


----------------------------------------------------------------------------
(* The exit-monitor *)

\* The rule checkTradeExits fires for the position at the price.
MonitorRule(setup, price) ==
    LET bull == setup.direction = "BULLISH"
        t1Hit == IF bull THEN price >= setup.t1 ELSE price <= setup.t1
        t2Hit == IF bull THEN price >= setup.t2 ELSE price <= setup.t2
        breakevenHit == IF bull THEN price <= setup.stop ELSE price >= setup.stop
        stopPrice == IF setup.originalStop # 0 THEN setup.originalStop ELSE setup.stop
        stopHit == IF bull THEN price <= stopPrice ELSE price >= stopPrice
    IN  IF ~setup.reachedTarget1 /\ t1Hit THEN "T1"
        ELSE IF setup.reachedTarget1 /\ ~setup.reachedTarget2 /\ t2Hit THEN "WIN"
        ELSE IF setup.reachedTarget1 /\ ~setup.reachedTarget2 /\ breakevenHit
        THEN "BREAKEVEN"
        ELSE IF ~setup.reachedTarget1 /\ stopHit THEN "LOSS"
        ELSE "NONE"

\* setup.reachedTarget1 = true; setup.originalStop = setup.stop; setup.stop = entryAvg
MonitorArm(setup) ==
    [setup EXCEPT !.reachedTarget1 = TRUE, !.originalStop = setup.stop,
                  !.stop = (setup.entryMin + setup.entryMax) \div 2]

\* The index of the record TradeDatabase.recordTradeOutcome and the manual close update
\* in place (same asset, same setup.timestamp, no outcome yet), 0 when there is none.
OpenRecord(trades, asset, setup) ==
    LET found == {i \in 1..Len(trades) :
                     /\ trades[i].asset = asset
                     /\ trades[i].setup.ts = setup.ts
                     /\ trades[i].outcome = ""}
    IN  IF found = {} THEN 0 ELSE CHOOSE i \in found : \A j \in found : i <= j

\* The exit-monitor's update of this.data.performance after the record.
MonitorPerformance(perf, trades, outcome) ==
    LET totalWins == SumAbsProfit(trades, "WIN")
        totalLosses == SumAbsProfit(trades, "LOSS")
        winners == perf.winners + (IF outcome = "WIN" THEN 1 ELSE 0)
        losers == perf.losers + (IF outcome = "LOSS" THEN 1 ELSE 0)
        breakevens == perf.breakevenTrades + (IF outcome = "BREAKEVEN" THEN 1 ELSE 0)
    IN  [perf EXCEPT
            !.totalTrades = Len(trades),
            !.winners = winners,
            !.losers = losers,
            !.breakevenTrades = breakevens,
            !.avgWin = IF outcome = "WIN"
                       THEN (IF winners > 0 THEN Ratio(totalWins, winners) ELSE RatioZero)
                       ELSE @,
            !.avgLoss = IF outcome = "LOSS"
                        THEN (IF losers > 0 THEN Ratio(totalLosses, losers) ELSE RatioZero)
                        ELSE @,
            !.winRate = IF Len(trades) > 0 THEN Ratio(winners * 100, Len(trades))
                        ELSE RatioZero,
            !.profitFactor = IF totalLosses > 0 THEN Ratio(totalWins, totalLosses)
                             ELSE IF totalWins > 0 THEN Ratio(999, 1) ELSE RatioZero,
            !.breakevenRate = IF Len(trades) > 0 THEN Ratio(breakevens * 100, Len(trades))
                              ELSE RatioZero,
            !.totalProfit = SumProfit(trades)]

\* TradeDatabase.recordTradeOutcome(asset, trade, outcome, profit, exitPrice) on the
\* object loaded for the asset; M is the monitor's state.
MonitorRecord(M, asset, outcome) ==
    LET setup == M.obj[asset][1]
        pnl == RealizedPnL(setup, outcome)
        k == OpenRecord(M.trades, asset, setup)
        trades == IF k # 0
                  THEN [M.trades EXCEPT ![k].outcome = outcome, ![k].profit = pnl,
                                        ![k].closedBy = "AUTONOMOUS_EXIT_ENGINE"]
                  ELSE Append(M.trades,
                              [asset |-> asset, setup |-> setup, outcome |-> outcome,
                               profit |-> pnl, timestamp |-> setup.ts,
                               closedBy |-> "AUTONOMOUS_EXIT_ENGINE", alias |-> TRUE])
    IN  [M EXCEPT !.trades = trades,
                  !.perf = MonitorPerformance(M.perf, trades, outcome)]

\* this.database.data as JSON carries it.
MonitorBlob(M) ==
    [trades |-> Serialized(M.trades),
     activeTrades |-> [a \in Asset |-> IF M.slot[a] THEN M.obj[a] ELSE <<>>],
     performance |-> M.perf]

\* TradeDatabase.save up to its first await: the POST leaves.
MonitorPost(M) ==
    [M EXCEPT !.net = IF Cardinality(@) < M.cap
                      THEN @ \cup {[from |-> "monitor", blob |-> MonitorBlob(M)]}
                      ELSE @]

MonitorState(cap) ==
    [trades |-> monitor.trades, perf |-> monitor.perf, obj |-> monitor.obj,
     slot |-> monitor.slot, net |-> net, cap |-> cap]

RECURSIVE RunCheck(_, _, _, _)
\* checkTradeExits' loop from Assets[i] on, until the next await; held is the map
\* getActiveTrades returned when the cycle began.
RunCheck(M, i, prices, held) ==
    IF i > Len(Assets) THEN [M |-> M, pc |-> "idle", i |-> 1]
    ELSE LET asset == Assets[i]
             setup == M.obj[asset][1]
             price == prices[asset]
             rule == MonitorRule(setup, price)
         IN  IF ~held[asset] THEN RunCheck(M, i + 1, prices, held)
             ELSE IF setup.entryPrice = 0 \/ price <= 0 \/ rule = "NONE"
             THEN RunCheck(M, i + 1, prices, held)
             ELSE IF rule = "T1"
             THEN LET armed == MonitorArm(setup)
                  IN  [M |-> MonitorPost([M EXCEPT
                                  !.obj[asset] = <<armed>>,
                                  !.slot[asset] = TRUE,
                                  !.trades = WriteThrough(M.trades, asset, armed)]),
                       pc |-> "post", i |-> i]
             ELSE [M |-> MonitorPost([MonitorRecord(M, asset, rule)
                                          EXCEPT !.slot[asset] = FALSE]),
                   pc |-> "post", i |-> i]

NoPrices == [a \in Asset |-> 0]
NothingHeld == [a \in Asset |-> FALSE]

MonitorCommit(c, r, prices, held) ==
    /\ monitor' = [monitor EXCEPT !.trades = r.M.trades, !.perf = r.M.perf,
                                  !.obj = r.M.obj, !.slot = r.M.slot]
    /\ net' = r.M.net
    /\ cycles' = [cycles EXCEPT ![c] =
                     IF r.pc = "idle"
                     THEN [pc |-> "idle", i |-> 1, prices |-> NoPrices, held |-> NothingHeld]
                     ELSE [pc |-> r.pc, i |-> r.i, prices |-> prices, held |-> held]]

\* ExitEngine.start: initialize() loads the store's blob, then the cycles begin.
MonitorStart ==
    /\ ~monitor.running
    /\ monitor' = [running |-> TRUE,
                   trades |-> store.trades,
                   perf |-> store.performance,
                   obj |-> store.activeTrades,
                   slot |-> [a \in Asset |-> store.activeTrades[a] # <<>>]]
    /\ UNCHANGED <<engineVars, cycles, net, store, manual, probe>>

\* runCycle begins (the initial cycle, or the interval firing) and awaits the prices.
\* A cycle that reads the store again before it fetches prices.
CycleStartReloads(c) ==
    /\ monitor.running
    /\ cycles[c].pc = "idle"
    /\ \A d \in DOMAIN cycles : d < c => cycles[d].pc # "idle"
    /\ cycles' = [cycles EXCEPT ![c].pc = "fetch"]
    /\ monitor' = [monitor EXCEPT
                      !.trades = store.trades,
                      !.perf = store.performance,
                      !.obj = store.activeTrades,
                      !.slot = [a \in Asset |-> store.activeTrades[a] # <<>>]]
    /\ UNCHANGED <<engineVars, net, store, manual, probe>>

CycleStart(c) ==
    /\ monitor.running
    /\ cycles[c].pc = "idle"
    /\ \A d \in DOMAIN cycles : d < c => cycles[d].pc # "idle"
    /\ cycles' = [cycles EXCEPT ![c].pc = "fetch"]
    /\ UNCHANGED <<engineVars, monitor, net, store, manual, probe>>

\* getCurrentPrices answers null: the cycle is skipped.
CycleNoPrices(c) ==
    /\ cycles[c].pc = "fetch"
    /\ cycles' = [cycles EXCEPT ![c].pc = "idle"]
    /\ UNCHANGED <<engineVars, monitor, net, store, manual, probe>>

\* getCurrentPrices answers: checkTradeExits(prices) runs up to its first await.
CyclePrices(c, prices, cap) ==
    /\ cycles[c].pc = "fetch"
    /\ LET held == monitor.slot
       IN  MonitorCommit(c, RunCheck(MonitorState(cap), 1, prices, held), prices, held)
    /\ UNCHANGED <<engineVars, store, manual, probe>>

\* TradeDatabase.save after the POST's await: the data, as it is now, is written to
\* DATA_FILE, the file the store serves.
CycleWriteFile(c) ==
    /\ cycles[c].pc = "post"
    /\ store' = MonitorBlob(MonitorState(0))
    /\ cycles' = [cycles EXCEPT ![c].pc = "write"]
    /\ UNCHANGED <<engineVars, monitor, net, manual, probe>>

\* The write returned: save is over and the loop goes on with the next asset.
CycleResume(c, cap) ==
    /\ cycles[c].pc = "write"
    /\ MonitorCommit(c, RunCheck(MonitorState(cap), cycles[c].i + 1, cycles[c].prices,
                                 cycles[c].held),
                     cycles[c].prices, cycles[c].held)
    /\ UNCHANGED <<engineVars, store, manual, probe>>

----------------------------------------------------------------------------
(* The store *)

\* A request body's value under a top-level key: JSON null, or a value.  A key the
\* body lacks is not in the body's domain.
JsonNull == [null |-> TRUE]
Given(value) == [null |-> FALSE, value |-> value]

BlobKeys == {"trades", "activeTrades", "performance"}

\* The body a client sends for a blob that has all three keys.
AsBody(blob) == [k \in BlobKeys |-> Given(blob[k])]

\* !data.key as POST /api/data tests it: the key is absent or null.
Lacks(body, key) == key \notin DOMAIN body \/ body[key] = JsonNull

\* A handler that fills trades and performance and resets the active slots.
EnsureFieldsResetsSlots(body) ==
    [trades |-> IF Lacks(body, "trades") THEN <<>> ELSE body["trades"].value,
     activeTrades |-> [a \in Asset |-> <<>>],
     performance |-> IF Lacks(body, "performance") THEN DefaultPerformance
                     ELSE body["performance"].value]

\* "Ensure required fields exist" of POST /api/data: the data it saves for a body.
EnsureFields(body) ==
    [trades |-> IF Lacks(body, "trades") THEN <<>> ELSE body["trades"].value,
     activeTrades |-> IF Lacks(body, "activeTrades") THEN [a \in Asset |-> <<>>]
                      ELSE body["activeTrades"].value,
     performance |-> IF Lacks(body, "performance") THEN DefaultPerformance
                     ELSE body["performance"].value]

\* A store that merges: it keeps a stored position the body has no position for.
PostDataKeepsPositions(m) ==
    /\ m \in net
    /\ store' = [m.blob EXCEPT !.activeTrades =
                     [a \in Asset |-> IF m.blob.activeTrades[a] = <<>>
                                      THEN store.activeTrades[a]
                                      ELSE m.blob.activeTrades[a]]]
    /\ net' = net \ {m}
    /\ UNCHANGED <<engineVars, monitorVars, manual, probe>>

\* POST /api/data: the body replaces the data file.
PostData(m) ==
    /\ m \in net
    /\ store' = EnsureFields(AsBody(m.blob))
    /\ net' = net \ {m}
    /\ UNCHANGED <<engineVars, monitorVars, manual, probe>>

\* An engine that, when its POST is lost, falls back to the data the store holds.
PostLostFallsBack(m) ==
    /\ m \in net
    /\ net' = net \ {m}
    /\ activeTrades' = store.activeTrades
    /\ tradeDatabase' = [trades |-> store.trades, performance |-> store.performance]
    /\ UNCHANGED <<currentPrices, priceHistory, sinceSignal, sinceAdmit, ticks, nextTs, runs>>
    /\ UNCHANGED <<monitorVars, store, manual, probe>>

\* A POST that never arrives.
PostLost(m) ==
    /\ m \in net
    /\ net' = net \ {m}
    /\ UNCHANGED <<engineVars, monitorVars, store, manual, probe>>

\* A handler that does not ask for an outcome or an exit price.
ManualClosedUnvalidated(data, asset, outcome, profit, exitPrice) ==
    IF asset = "" THEN <<>>
    ELSE IF data.activeTrades[asset] = <<>> THEN <<>>
    ELSE IF ~data.activeTrades[asset][1].wrapped THEN <<>>
    ELSE <<[trades |-> Append(data.trades,
                              [asset |-> asset, setup |-> data.activeTrades[asset][1],
                               outcome |-> outcome, profit |-> profit,
                               timestamp |-> data.activeTrades[asset][1].ts,
                               closedBy |-> "MANUAL_API", alias |-> FALSE]),
            activeTrades |-> [data.activeTrades EXCEPT ![asset] = <<>>],
            performance |-> [data.performance EXCEPT !.totalTrades = @ + 1]]>>

\* The data POST /api/trades/close writes for the request, <<>> when it answers 400 or
\* 404 and writes nothing.
ManualClosed(data, asset, outcome, profit, exitPrice) ==
    IF asset = "" \/ outcome = "" \/ exitPrice = 0 THEN <<>>
    ELSE IF data.activeTrades[asset] = <<>> THEN <<>>
    ELSE IF ~data.activeTrades[asset][1].wrapped THEN <<>>
    ELSE LET setup == data.activeTrades[asset][1]
             k == OpenRecord(data.trades, asset, setup)
             trades == IF k # 0
                       THEN [data.trades EXCEPT ![k].outcome = outcome,
                                 ![k].profit = profit, ![k].closedBy = "MANUAL_API"]
                       ELSE Append(data.trades,
                                   [asset |-> asset, setup |-> setup, outcome |-> outcome,
                                    profit |-> profit, timestamp |-> setup.ts,
                                    closedBy |-> "MANUAL_API", alias |-> FALSE])
             perf == data.performance
         IN  <<[trades |-> trades,
                activeTrades |-> [data.activeTrades EXCEPT ![asset] = <<>>],
                performance |-> [perf EXCEPT
                    !.totalTrades = Len(trades),
                    !.winners = @ + (IF outcome = "WIN" THEN 1 ELSE 0),
                    !.losers = @ + (IF outcome = "LOSS" THEN 1 ELSE 0),
                    !.breakevenTrades = @ + (IF outcome = "BREAKEVEN" THEN 1 ELSE 0)]]>>

\* The status POST /api/trades/close answers with.
ManualStatus(asset, outcome, exitPrice, closed) ==
    IF asset = "" \/ outcome = "" \/ exitPrice = 0 THEN 400
    ELSE IF closed = <<>> THEN 404
    ELSE 200

\* POST /api/trades/close up to its write or its error response: the handler checks the
\* request, reads the file and builds the data it will save.
ManualClose(asset, outcome, profit, exitPrice) ==
    /\ manual = <<>>
    /\ LET closed == ManualClosed(store, asset, outcome, profit, exitPrice)
       IN  manual' = <<[asset |-> asset, outcome |-> outcome, exitPrice |-> exitPrice,
                        status |-> ManualStatus(asset, outcome, exitPrice, closed),
                        data |-> closed]>>
    /\ UNCHANGED <<engineVars, monitorVars, net, store, probe>>

\* saveTradeData of POST /api/trades/close, and its answer.
ManualSave ==
    /\ manual # <<>>
    /\ manual[1].data # <<>>
    /\ store' = manual[1].data[1]
    /\ manual' = <<>>
    /\ UNCHANGED <<engineVars, monitorVars, net, probe>>

\* POST /api/trades/close answers 400 or 404: nothing is written.
ManualReject ==
    /\ manual # <<>>
    /\ manual[1].data = <<>>
    /\ manual' = <<>>
    /\ UNCHANGED <<engineVars, monitorVars, net, store, probe>>

----------------------------------------------------------------------------
NoProbe == [phase |-> "none"]

Init ==
    /\ probe = NoProbe
    /\ manual = <<>>
    /\ monitor = [running |-> FALSE, trades |-> <<>>, perf |-> DefaultPerformance,
                  obj |-> [a \in Asset |-> <<>>], slot |-> [a \in Asset |-> FALSE]]
    /\ cycles = [c \in CycleIds |->
                    [pc |-> "idle", i |-> 1, prices |-> NoPrices, held |-> NothingHeld]]
    /\ currentPrices = [a \in Asset |-> 0]
    /\ priceHistory = [a \in Asset |-> 0]
    /\ sinceSignal = [a \in Asset |-> CooldownUnits]
    /\ sinceAdmit = [a \in Asset |-> CooldownUnits]
    /\ activeTrades = [a \in Asset |-> <<>>]
    /\ tradeDatabase = [trades |-> <<>>, performance |-> DefaultPerformance]
    /\ ticks = [t \in TickIds |-> [pc |-> "idle", i |-> 1]]
    /\ nextTs = 0
    /\ runs = 1
    /\ net = {}
    /\ store = DefaultData

EngineRolls == {7}
StoreDown == [cap |-> 0, opens |-> MaxOpens, patient |-> FALSE]   \* every saveToVPS fails and is logged
EngineFeed == [btc |-> FeedPrices, eth |-> {P(100, 0)}]

NextEngine ==
    \/ \E t \in TickIds : TickStart(t, EngineRolls, StoreDown)
    \/ \E t \in TickIds : TickResume(t, EngineRolls, StoreDown)
    \/ \E a \in Asset : \E p \in EngineFeed[a] : updatePrice(a, p)
    \/ TimePasses

SpecEngine == Init /\ [][NextEngine]_vars

\* A position in the blob's older layout, nested under .setup, as the exit-monitor and
\* POST /api/trades/close read it.
LegacySetup ==
    [NewSetup(P(100, 0), "BULLISH", 8, 0) EXCEPT !.wrapped = TRUE]

LegacyData == [DefaultData EXCEPT !.activeTrades["eth"] = <<LegacySetup>>]

\* The state after main() when the data file holds a position in the older layout:
\* loadFromVPS has put it into the engine's slot.
InitLegacy ==
    /\ probe = NoProbe
    /\ currentPrices = [a \in Asset |-> 0]
    /\ priceHistory = [a \in Asset |-> 0]
    /\ sinceSignal = [a \in Asset |-> CooldownUnits]
    /\ sinceAdmit = [a \in Asset |-> CooldownUnits]
    /\ activeTrades = LegacyData.activeTrades
    /\ tradeDatabase = [trades |-> <<>>, performance |-> DefaultPerformance]
    /\ ticks = [t \in TickIds |-> [pc |-> "idle", i |-> 1]]
    /\ nextTs = 0
    /\ runs = 1
    /\ net = {}
    /\ store = LegacyData
    /\ manual = <<>>
    /\ monitor = [running |-> FALSE, trades |-> <<>>, perf |-> DefaultPerformance,
                  obj |-> [a \in Asset |-> <<>>], slot |-> [a \in Asset |-> FALSE]]
    /\ cycles = [c \in CycleIds |->
                    [pc |-> "idle", i |-> 1, prices |-> NoPrices, held |-> NothingHeld]]

\* One POST in flight at a time, one position opened; the feed quotes btc only.
SystemEnv == [cap |-> 1, opens |-> 1, patient |-> FALSE]
SystemFeed == [btc |-> FeedPrices, eth |-> {}]
MonitorFeed == [btc : {P(100, 80), P(101, 30)}, eth : {P(100, 0)}]

NextSystem ==
    \/ \E t \in TickIds : TickStart(t, EngineRolls, SystemEnv)
    \/ \E t \in TickIds : TickResume(t, EngineRolls, SystemEnv)
    \/ \E a \in Asset : \E p \in SystemFeed[a] : updatePrice(a, p)
    \/ TimePasses
    \/ \E m \in net : PostData(m)
    \/ \E m \in net : PostLost(m)
    \/ MonitorStart
    \/ \E c \in CycleIds : CycleStart(c)
    \/ \E c \in CycleIds : CycleNoPrices(c)
    \/ \E c \in CycleIds, prices \in MonitorFeed : CyclePrices(c, prices, 0)
    \/ \E c \in CycleIds : CycleWriteFile(c)
    \/ \E c \in CycleIds : CycleResume(c, 0)

SpecSystem == Init /\ [][NextSystem]_vars

\* The engine as the store's only writer, one scan at a time, killed and started again.
NextRestart ==
    \/ TickStart(1, EngineRolls, SystemEnv)
    \/ TickResume(1, EngineRolls, SystemEnv)
    \/ \E a \in Asset : \E p \in SystemFeed[a] : updatePrice(a, p)
    \/ \E m \in net : PostData(m)
    \/ \E m \in net : PostLost(m)
    \/ \E loaded \in BOOLEAN : EngineRestart(loaded)

SpecRestart == Init /\ [][NextRestart]_vars

\* The engine as the store's only writer, with overlapping scans, every POST answered:
\* one POST per scan may be in flight, none is lost and none times out.
AnsweringEnv == [cap |-> MaxTicks, opens |-> 1, patient |-> TRUE]

NextSaves ==
    \/ \E t \in TickIds : TickStart(t, EngineRolls, AnsweringEnv)
    \/ \E t \in TickIds : TickResume(t, EngineRolls, AnsweringEnv)
    \/ \E a \in Asset : \E p \in SystemFeed[a] : updatePrice(a, p)
    \/ \E m \in net : PostData(m)

SpecSaves == Init /\ [][NextSaves]_vars

\* The deployment with a position in the older layout in the data file: the engine (one
\* scan at a time), the store, the exit-monitor and POST /api/trades/close.
LegacyFeed == [btc : {P(101, 30)}, eth : {P(99, 40), P(101, 30)}]
ManualOutcomes == {"LOSS"}
ManualProfits == {0}

NextLegacy ==
    \/ TickStart(1, EngineRolls, SystemEnv)
    \/ TickResume(1, EngineRolls, SystemEnv)
    \/ \E a \in Asset : \E p \in SystemFeed[a] : updatePrice(a, p)
    \/ \E m \in net : PostData(m)
    \/ \E m \in net : PostLost(m)
    \/ MonitorStart
    \/ CycleStart(1)
    \/ CycleNoPrices(1)
    \/ \E prices \in LegacyFeed : CyclePrices(1, prices, 0)
    \/ CycleWriteFile(1)
    \/ CycleResume(1, 0)
    \/ \E o \in ManualOutcomes, pr \in ManualProfits : ManualClose("eth", o, pr, P(100, 0))
    \/ ManualSave
    \/ ManualReject

SpecLegacy == InitLegacy /\ [][NextLegacy]_vars

\* The store with its two clients of the close path: the engine, which opens a btc
\* position and posts it, and the callers of POST /api/trades/close, whose requests may
\* lack a field.  The data file starts with an eth position in the older layout.
ManualRequests ==
    [asset : Asset, outcome : {"LOSS"}, profit : {0}, exitPrice : {P(100, 0)}]
        \cup {[asset |-> "", outcome |-> "LOSS", profit |-> 0, exitPrice |-> P(100, 0)],
               [asset |-> "eth", outcome |-> "", profit |-> 0, exitPrice |-> P(100, 0)],
               [asset |-> "eth", outcome |-> "LOSS", profit |-> 0, exitPrice |-> 0],
               [asset |-> "eth", outcome |-> "ACTIVE", profit |-> 0,
                exitPrice |-> P(100, 0)]}

NextManual ==
    \/ TickStart(1, EngineRolls, SystemEnv)
    \/ TickResume(1, EngineRolls, SystemEnv)
    \/ \E a \in Asset : \E p \in SystemFeed[a] : updatePrice(a, p)
    \/ \E m \in net : PostData(m)
    \/ \E m \in net : PostLost(m)
    \/ \E r \in ManualRequests : ManualClose(r.asset, r.outcome, r.profit, r.exitPrice)
    \/ ManualSave
    \/ ManualReject

SpecManual == InitLegacy /\ [][NextManual]_vars

----------------------------------------------------------------------------
(* Both processes and the signals that end them.  probe tells how far each process *)
(* is (running, stopping, exited) and which of them called its save() on a signal. *)

Signals ==
    IF probe.phase = "signals" THEN probe
    ELSE [phase |-> "signals", engine |-> "running", monitor |-> "running", final |-> {}]

SignalNames == {"SIGTERM", "SIGINT"}

\* A signal reaches the engine.  main() has a handler for SIGTERM: it closes the socket
\* and awaits saveToVPS(), the interval still firing; any other signal ends the process
\* at once.
EngineSignal(signal, env) ==
    /\ Signals.engine = "running"
    /\ IF signal = "SIGTERM"
       THEN /\ net' = saveToVPS(EngineState(env)).net
            /\ probe' = [Signals EXCEPT !.engine = "stopping", !.final = @ \cup {"engine"}]
            /\ ticks' = ticks
       ELSE /\ net' = net
            /\ probe' = [Signals EXCEPT !.engine = "exited"]
            /\ ticks' = [t \in DOMAIN ticks |-> [pc |-> "idle", i |-> 1]]
    /\ UNCHANGED <<currentPrices, priceHistory, sinceSignal, sinceAdmit, activeTrades,
                   tradeDatabase, nextTs, runs>>
    /\ UNCHANGED <<monitorVars, store, manual>>

\* The await of the handler's saveToVPS returns: process.exit(0).
EngineExit ==
    /\ Signals.engine = "stopping"
    /\ probe' = [Signals EXCEPT !.engine = "exited"]
    /\ ticks' = [t \in DOMAIN ticks |-> [pc |-> "idle", i |-> 1]]
    /\ UNCHANGED <<currentPrices, priceHistory, sinceSignal, sinceAdmit, activeTrades,
                   tradeDatabase, nextTs, runs>>
    /\ UNCHANGED <<monitorVars, net, store, manual>>

\* SIGTERM or SIGINT reaches the exit-monitor: engine.stop(); process.exit(0).
MonitorSignal(signal) ==
    /\ monitor.running
    /\ Signals.monitor = "running"
    /\ monitor' = [monitor EXCEPT !.running = FALSE]
    /\ cycles' = [c \in DOMAIN cycles |->
                     [pc |-> "idle", i |-> 1, prices |-> NoPrices, held |-> NothingHeld]]
    /\ probe' = [Signals EXCEPT !.monitor = "exited"]
    /\ UNCHANGED <<engineVars, net, store, manual>>

EngineAlive == Signals.engine # "exited"
MonitorAlive == Signals.monitor = "running"

NextSignal ==
    \/ EngineAlive /\ TickStart(1, EngineRolls, SystemEnv)
    \/ EngineAlive /\ TickResume(1, EngineRolls, SystemEnv)
    \/ EngineAlive /\ \E a \in Asset : \E p \in SystemFeed[a] : updatePrice(a, p)
    \/ \E m \in net : PostData(m)
    \/ \E m \in net : PostLost(m)
    \/ MonitorAlive /\ MonitorStart
    \/ MonitorAlive /\ CycleStart(1)
    \/ MonitorAlive /\ CycleNoPrices(1)
    \/ MonitorAlive /\ \E prices \in MonitorFeed : CyclePrices(1, prices, 0)
    \/ MonitorAlive /\ CycleWriteFile(1)
    \/ MonitorAlive /\ CycleResume(1, 0)
    \/ \E signal \in SignalNames : EngineSignal(signal, SystemEnv)
    \/ EngineExit
    \/ \E signal \in SignalNames : MonitorSignal(signal)

SpecSignal == Init /\ [][NextSignal]_vars

----------------------------------------------------------------------------
(* Both processes started on a data file that holds a btc position: POST /api/data   *)
(* stores whatever body it is sent, so the levels of the position are an input.  For *)
(* a position the engine opened itself, the stop after target 1 is the entry         *)
(* average, which never lies beyond target 2.                                        *)

LoadedStops == {P(98, 70), P(99, 50), P(100, 0), P(100, 50), P(101, 30)}
LoadedFeed == {P(98, 70), P(100, 0), P(101, 30)}

LoadedSetups ==
    {[NewSetup(P(100, 0), direction, 8, 1) EXCEPT
         !.reachedTarget1 = reached, !.stop = stop,
         !.originalStop = IF reached
                          THEN calculateSetupLevels(P(100, 0), direction,
                                                    RISK_CONFIGS[riskMode]).stop
                          ELSE 0] :
        direction \in Directions, reached \in BOOLEAN, stop \in LoadedStops}

\* The state after main(): loadFromVPS has put the file's position into the slot.
InitLoaded ==
    /\ probe = NoProbe
    /\ manual = <<>>
    /\ monitor = [running |-> FALSE, trades |-> <<>>, perf |-> DefaultPerformance,
                  obj |-> [a \in Asset |-> <<>>], slot |-> [a \in Asset |-> FALSE]]
    /\ cycles = [c \in CycleIds |->
                    [pc |-> "idle", i |-> 1, prices |-> NoPrices, held |-> NothingHeld]]
    /\ currentPrices = [a \in Asset |-> 0]
    /\ priceHistory = [a \in Asset |-> 0]
    /\ sinceSignal = [a \in Asset |-> CooldownUnits]
    /\ sinceAdmit = [a \in Asset |-> CooldownUnits]
    /\ \E setup \in LoadedSetups :
          /\ store = [DefaultData EXCEPT !.activeTrades["btc"] = <<setup>>]
          /\ activeTrades = [a \in Asset |-> IF a = "btc" THEN <<setup>> ELSE <<>>]
    /\ tradeDatabase = [trades |-> <<>>, performance |-> DefaultPerformance]
    /\ ticks = [t \in TickIds |-> [pc |-> "idle", i |-> 1]]
    /\ nextTs = 1
    /\ runs = 1
    /\ net = {}

\* The store's POST fails; the engine opens no position beyond the one it loaded.
LoadedEnv == [cap |-> 0, opens |-> 1, patient |-> FALSE]
LoadedPrices == [btc : LoadedFeed, eth : {P(100, 0)}]

NextLoaded ==
    \/ TickStart(1, EngineRolls, LoadedEnv)
    \/ TickResume(1, EngineRolls, LoadedEnv)
    \/ \E p \in LoadedFeed : updatePrice("btc", p)
    \/ MonitorStart
    \/ CycleStart(1)
    \/ CycleNoPrices(1)
    \/ \E prices \in LoadedPrices : CyclePrices(1, prices, 0)
    \/ CycleWriteFile(1)
    \/ CycleResume(1, 0)

SpecLoaded == InitLoaded /\ [][NextLoaded]_vars

----------------------------------------------------------------------------
(* recordTradeOutcome called directly, as module.exports offers it *)

ProbePrices == {P(100, 0), P(100, 40)}

\* A position with the levels of calculateSetupLevels under a preset, before or after
\* target 1 moved its stop.
ProbeSetup(price, direction, mode, armed, ts) ==
    LET l == calculateSetupLevels(price, direction, RISK_CONFIGS[mode])
        fresh == [NewSetup(price, direction, 8, ts) EXCEPT
                     !.stop = l.stop, !.t1 = l.t1, !.t2 = l.t2]
    IN  IF armed THEN ArmTarget1(fresh) ELSE fresh

ProbeSetups(ts) ==
    {ProbeSetup(price, direction, mode, FALSE, ts) :
        price \in ProbePrices, direction \in Directions, mode \in DOMAIN RISK_CONFIGS}
    \cup {ProbeSetup(price, direction, riskMode, TRUE, ts) :
        price \in ProbePrices, direction \in Directions}

InitRecord ==
    /\ probe = [phase |-> "idle", closes |-> 0]
    /\ manual = <<>>
    /\ monitor = [running |-> FALSE, trades |-> <<>>, perf |-> DefaultPerformance,
                  obj |-> [a \in Asset |-> <<>>], slot |-> [a \in Asset |-> FALSE]]
    /\ cycles = [c \in CycleIds |->
                    [pc |-> "idle", i |-> 1, prices |-> NoPrices, held |-> NothingHeld]]
    /\ currentPrices = [a \in Asset |-> 0]
    /\ priceHistory = [a \in Asset |-> 0]
    /\ sinceSignal = [a \in Asset |-> CooldownUnits]
    /\ sinceAdmit = [a \in Asset |-> CooldownUnits]
    /\ activeTrades = [a \in Asset |-> <<>>]
    /\ tradeDatabase = [trades |-> <<>>, performance |-> DefaultPerformance]
    /\ ticks = [t \in TickIds |-> [pc |-> "idle", i |-> 1]]
    /\ nextTs = 0
    /\ runs = 1
    /\ net = {}
    /\ store = DefaultData

\* The first call for a close: recordTradeOutcome(asset, setup, outcome, profit).
ProbeCall(asset, setup, outcome) ==
    /\ probe.phase = "idle"
    /\ probe.closes < MaxCloses
    /\ monitor.trades = <<>>
    /\ LET r == recordTradeOutcome(EngineState(StoreDown), asset, setup, outcome, FALSE)
           db == [trades |-> r.S.trades, performance |-> r.S.perf]
       IN  /\ tradeDatabase' = db
           /\ probe' = [phase |-> "called", closes |-> probe.closes + 1,
                        asset |-> asset, outcome |-> outcome, setup |-> r.setup,
                        calls |-> 1, appended |-> r.saved, reloaded |-> FALSE,
                        after |-> db]
    /\ UNCHANGED <<currentPrices, priceHistory, sinceSignal, sinceAdmit, activeTrades, ticks,
                   nextTs, runs>>
    /\ UNCHANGED <<monitorVars, net, store, manual>>

\* A further call for the same close, with the same object or with a copy of it read
\* back from the store, its recorded flag unset.
ProbeCallAgain(reloaded) ==
    /\ probe.phase = "called"
    /\ probe.calls < MaxCalls
    /\ LET setup == IF reloaded THEN [probe.setup EXCEPT !.recorded = FALSE]
                    ELSE probe.setup
           r == recordTradeOutcome(EngineState(StoreDown), probe.asset, setup,
                                   probe.outcome, FALSE)
       IN  /\ tradeDatabase' = [trades |-> r.S.trades, performance |-> r.S.perf]
           /\ probe' = [probe EXCEPT !.calls = @ + 1,
                                     !.reloaded = @ \/ reloaded,
                                     !.setup = IF reloaded THEN @ ELSE r.setup]
    /\ UNCHANGED <<currentPrices, priceHistory, sinceSignal, sinceAdmit, activeTrades, ticks,
                   nextTs, runs>>
    /\ UNCHANGED <<monitorVars, net, store, manual>>

\* The caller goes on to its next close.
ProbeDone ==
    /\ probe.phase = "called"
    /\ probe' = [phase |-> "idle", closes |-> probe.closes]
    /\ UNCHANGED <<engineVars, monitorVars, net, store, manual>>

\* TradeDatabase.recordTradeOutcome(asset, { setup }, outcome, profit, exitPrice) of the
\* exit-monitor, called for a position it holds.
ProbeMonitorCall(asset, setup, outcome) ==
    /\ probe.phase = "idle"
    /\ tradeDatabase.trades = <<>>
    /\ Len(monitor.trades) < MaxCloses
    /\ LET M == MonitorRecord([MonitorState(0) EXCEPT !.obj[asset] = <<setup>>],
                              asset, outcome)
       IN  monitor' = [monitor EXCEPT !.trades = M.trades, !.perf = M.perf]
    /\ UNCHANGED <<engineVars, cycles, net, store, manual, probe>>

NextRecord ==
    \/ \E a \in Asset, o \in Outcomes :
          \E setup \in ProbeSetups(probe.closes + 1) : ProbeCall(a, setup, o)
    \/ \E reloaded \in BOOLEAN : ProbeCallAgain(reloaded)
    \/ ProbeDone
    \/ \E a \in Asset, o \in Outcomes :
          \E setup \in ProbeSetups(Len(monitor.trades) + 1) : ProbeMonitorCall(a, setup, o)

SpecRecord == InitRecord /\ [][NextRecord]_vars

----------------------------------------------------------------------------
(* calculateSetupLevels called for a price, a direction and a preset *)

LevelPrices == {P(u, 10 * d) : u \in 98..102, d \in 0..9}

ProbeLevels(price, direction, mode) ==
    /\ probe' = [phase |-> "levels", price |-> price, direction |-> direction,
                 mode |-> mode,
                 levels |-> calculateSetupLevels(price, direction, RISK_CONFIGS[mode])]
    /\ UNCHANGED <<engineVars, monitorVars, net, store, manual>>

NextLevels ==
    \E price \in LevelPrices, direction \in Directions, mode \in DOMAIN RISK_CONFIGS :
        ProbeLevels(price, direction, mode)

SpecLevels == InitRecord /\ [][NextLevels]_vars

----------------------------------------------------------------------------
(* recordTradeOutcome called directly while the store answers: any outcome string, *)
(* a new position or the object of the call before, as it is or read back.         *)

GuardEnv == [cap |-> 2, opens |-> MaxOpens, patient |-> FALSE]
CallOutcomes == Outcomes \cup {"", "ACTIVE", "OPEN"}

\* Two positions whose entry prices lie less than 0.5 apart, and the object of the
\* call before with its copy from the store.
GuardSetups ==
    {ProbeSetup(price, "BULLISH", riskMode, FALSE, 1) : price \in ProbePrices}
        \cup (IF probe.phase = "guard"
              THEN {probe.setup, [probe.setup EXCEPT !.recorded = FALSE]} ELSE {})

\* recordTradeOutcome(asset, setup, outcome, profit), the POST of its save leaving.
RecordCall(asset, setup, outcome) ==
    /\ probe.phase \in {"idle", "guard"}
    /\ probe.phase = "guard" => probe.calls < MaxCalls
    /\ LET r == recordTradeOutcome(EngineState(GuardEnv), asset, setup, outcome, FALSE)
       IN  /\ tradeDatabase' = [trades |-> r.S.trades, performance |-> r.S.perf]
           /\ net' = r.S.net
           /\ probe' = [phase |-> "guard", asset |-> asset, outcome |-> outcome,
                        before |-> setup, setup |-> r.setup,
                        calls |-> IF probe.phase = "guard" THEN probe.calls + 1 ELSE 1]
    /\ UNCHANGED <<currentPrices, priceHistory, sinceSignal, sinceAdmit, activeTrades, ticks,
                   nextTs, runs>>
    /\ UNCHANGED <<monitorVars, store, manual>>

NextGuard ==
    \/ \E setup \in GuardSetups, o \in CallOutcomes : RecordCall("btc", setup, o)
    \/ \E m \in net : PostData(m)

SpecGuard == InitRecord /\ [][NextGuard]_vars

----------------------------------------------------------------------------
(* detectMarketCondition called on the price windows of the two assets.  A window is *)
(* the sequence of its samples' prices; updatePrice makes the asset's current price  *)
(* the price of its last sample.                                                     *)

TrendSamples == 5

\* The label one window gives: trend against 0.02 * currentPrices[asset].
TrendLabel(recent, current) ==
    LET trend == recent[Len(recent)] - recent[1]
    IN  IF trend * 50 > current THEN "TRENDING_UP"
        ELSE IF trend * 50 < -current THEN "TRENDING_DOWN"
        ELSE "RANGING"

\* priceHistory[asset].slice(-5)
Recent(window) == SubSeq(window, Len(window) - TrendSamples + 1, Len(window))

RECURSIVE detectMarketCondition(_, _, _, _)
\* ['btc', 'eth'].forEach from Assets[i] on: every asset with 5 samples or more assigns
\* the one marketCondition of the module.
detectMarketCondition(i, history, prices, marketCondition) ==
    IF i > Len(Assets) THEN marketCondition
    ELSE LET asset == Assets[i]
         IN  detectMarketCondition(i + 1, history, prices,
                 IF Len(history[asset]) >= TrendSamples
                 THEN TrendLabel(Recent(history[asset]), prices[asset])
                 ELSE marketCondition)

RegimePrices == {P(97, 0), P(98, 0), P(100, 0), P(103, 0)}

\* Windows of no, 4, 5 and 6 samples.
RegimeWindows ==
    {<<>>}
    \cup {<<f, P(100, 0), P(100, 0), l>> : f \in RegimePrices, l \in RegimePrices}
    \cup {<<f, P(100, 0), P(100, 0), P(100, 0), l>> : f \in RegimePrices, l \in RegimePrices}
    \cup {<<P(103, 0), f, P(100, 0), P(100, 0), P(100, 0), l>> :
              f \in RegimePrices, l \in RegimePrices}

MarketConditions == {"RANGING", "TRENDING_UP", "TRENDING_DOWN"}

ProbeRegime(history, before) ==
    /\ probe.phase = "idle"
    /\ probe' = [phase |-> "regime", history |-> history, before |-> before,
                 marketCondition |->
                     detectMarketCondition(1, history,
                         [a \in Asset |-> IF history[a] = <<>> THEN 0
                                          ELSE history[a][Len(history[a])]],
                         before)]
    /\ UNCHANGED <<engineVars, monitorVars, net, store, manual>>

NextRegime ==
    \E history \in [Asset -> RegimeWindows], before \in MarketConditions :
        ProbeRegime(history, before)

SpecRegime == InitRecord /\ [][NextRegime]_vars

----------------------------------------------------------------------------
(* POST /api/data and GET /api/data called by any client: the body may lack a  *)
(* top-level key or hold null under it.                                        *)

PostedTrades ==
    {<<>>,
     <<[asset |-> "btc", setup |-> NewSetup(P(100, 0), "BULLISH", 8, 1),
        outcome |-> "WIN", profit |-> 0, timestamp |-> 1, closedBy |-> "",
        alias |-> FALSE]>>}
PostedActive ==
    {[a \in Asset |-> <<>>],
     [a \in Asset |-> IF a = "btc" THEN <<NewSetup(P(100, 0), "BULLISH", 8, 1)>>
                      ELSE <<>>]}
PostedPerformance == {DefaultPerformance, [DefaultPerformance EXCEPT !.totalTrades = 1]}

Missing == [missing |-> TRUE]

\* The JSON object with the given value under each key, without the keys marked missing.
Body(trades, active, performance) ==
    LET o == [trades |-> trades, activeTrades |-> active, performance |-> performance]
    IN  [k \in {key \in BlobKeys : o[key] # Missing} |-> o[k]]

Choices(values) == {Missing, JsonNull} \cup {Given(v) : v \in values}

\* POST /api/data with the body, saveTradeData succeeding: 200.
PostBody(body) ==
    /\ probe.phase \in {"idle", "posted", "got"}
    /\ store' = EnsureFields(body)
    /\ probe' = [phase |-> "posted", posted |-> body, failed |-> FALSE]
    /\ UNCHANGED <<engineVars, monitorVars, net, manual>>

\* POST /api/data whose saveTradeData returns false: 500, the file is as it was.
PostBodyFails ==
    /\ probe.phase \in {"posted", "got"}
    /\ probe' = [phase |-> "posted", posted |-> probe.posted, failed |-> TRUE]
    /\ UNCHANGED <<engineVars, monitorVars, net, store, manual>>

\* GET /api/data: loadTradeData parses the file and the handler answers with it.
GetData ==
    /\ probe.phase = "posted"
    /\ probe' = [phase |-> "got", posted |-> probe.posted, failed |-> probe.failed,
                 got |-> store]
    /\ UNCHANGED <<engineVars, monitorVars, net, store, manual>>

NextBlob ==
    \/ \E t \in Choices(PostedTrades), a \in Choices(PostedActive),
          p \in Choices(PostedPerformance) : PostBody(Body(t, a, p))
    \/ PostBodyFails
    \/ GetData

SpecBlob == InitRecord /\ [][NextBlob]_vars

----------------------------------------------------------------------------
(* updatePrice with the price window itself: the samples of each asset, oldest first *)

WindowCap == 50
MaxArrivals == 52

\* A window that drops its newest sample when it is full.
PushSampleDropsNewest(history, price) ==
    IF Len(history) + 1 > WindowCap THEN history ELSE Append(history, price)

\* priceHistory[asset].push(...); if (priceHistory[asset].length > 50) shift()
PushSample(history, price) ==
    LET pushed == Append(history, price)
    IN  IF Len(pushed) > WindowCap THEN Tail(pushed) ELSE pushed

NoWindows ==
    [history |-> [a \in Asset |-> <<>>], current |-> [a \in Asset |-> 0],
     accepted |-> [a \in Asset |-> <<>>]]

\* The windows, the current prices and the ticks accepted so far.
Windows == IF probe.phase = "window" THEN probe ELSE NoWindows

\* updatePrice(asset, price, change) on a ticker message; probe.accepted lists every
\* price that passed the guard, probe.last is the message.
ProbeTick(asset, price) ==
    /\ probe.phase \in {"idle", "window"}
    /\ LET w == Windows
       IN  probe' = IF price <= 0
                    THEN [phase |-> "window", history |-> w.history,
                          current |-> w.current, accepted |-> w.accepted,
                          last |-> [asset |-> asset, price |-> price]]
                    ELSE [phase |-> "window",
                          history |-> [w.history EXCEPT
                                          ![asset] = PushSample(@, price)],
                          current |-> [w.current EXCEPT ![asset] = price],
                          accepted |-> [w.accepted EXCEPT ![asset] = Append(@, price)],
                          last |-> [asset |-> asset, price |-> price]]
    /\ UNCHANGED <<engineVars, monitorVars, net, store, manual>>

\* The ticker's prices: the n-th accepted tick of an asset quotes n, a malformed
\* message quotes zero or less.
TickPrices(asset) ==
    {0, -P(1, 0)} \cup
        (IF Len(Windows.accepted[asset]) < MaxArrivals
         THEN {P(Len(Windows.accepted[asset]) + 1, 0)} ELSE {})

NextWindow == \E a \in Asset : \E p \in TickPrices(a) : ProbeTick(a, p)

SpecWindow == InitRecord /\ [][NextWindow]_vars

----------------------------------------------------------------------------
(* calculateMomentum on a window of at least 3 samples, and the direction       *)
(* scanForSignals and generateAISetup take from it.  Changes are whole percent; *)
(* a momentum is held in sixths of a percent, so that avgChange / 2 is exact.   *)

MomentumUnit == 6
Changes == {-6, -3, -1, 0, 1, 3, 6}

Clamp(x, lo, hi) == IF x < lo THEN lo ELSE IF x > hi THEN hi ELSE x

\* Math.max(-2, Math.min(2, avgChange / 2)), avgChange the mean change of slice(-3)
calculateMomentum(changes) ==
    LET n == Len(changes)
        sum == changes[n - 2] + changes[n - 1] + changes[n]
    IN  Clamp(sum, -2 * MomentumUnit, 2 * MomentumUnit)

\* calculateMomentum(asset) and const direction = momentum > 0 ? 'BULLISH' : 'BEARISH'
ProbeMomentum(changes) ==
    /\ probe.phase = "idle"
    /\ probe' = [phase |-> "momentum", changes |-> changes,
                 momentum |-> calculateMomentum(changes),
                 direction |-> IF calculateMomentum(changes) > 0
                               THEN "BULLISH" ELSE "BEARISH"]
    /\ UNCHANGED <<engineVars, monitorVars, net, store, manual>>

NextMomentum ==
    \E n \in 3..4 : \E changes \in [1..n -> Changes] : ProbeMomentum(changes)

SpecMomentum == InitRecord /\ [][NextMomentum]_vars

----------------------------------------------------------------------------
(* The same position and the same prices given to updateTradeStatus and checkTradeExits *)

MaxExits == 3

\* The position generateAISetup built is in the engine's slot and, through the store, in
\* the exit-monitor's.
ProbeOpen(setup) ==
    /\ probe.phase = "idle"
    /\ probe' = [phase |-> "exits", engine |-> <<setup>>, monitor |-> <<setup>>,
                 price |-> 0, taken |-> <<"NONE", "NONE">>, n |-> 0]
    /\ UNCHANGED <<engineVars, monitorVars, net, store, manual>>

\* One price reaches both: updateTradeStatus runs on the engine's copy, checkTradeExits
\* on the exit-monitor's.
ProbeExits(price) ==
    /\ probe.phase = "exits"
    /\ probe.n < MaxExits
    /\ LET trade == probe.engine
           held == probe.monitor
           byEngine == IF trade = <<>> \/ price <= 0 THEN "NONE"
                       ELSE EngineRule(trade[1], price)
           byMonitor == IF held = <<>> THEN "NONE"
                        ELSE IF held[1].entryPrice = 0 \/ price <= 0 THEN "NONE"
                        ELSE MonitorRule(held[1], price)
       IN  probe' = [probe EXCEPT
                        !.engine = IF byEngine = "NONE" THEN trade
                                   ELSE IF byEngine = "T1" THEN <<ArmTarget1(trade[1])>>
                                   ELSE <<>>,
                        !.monitor = IF byMonitor = "NONE" THEN held
                                    ELSE IF byMonitor = "T1" THEN <<MonitorArm(held[1])>>
                                    ELSE <<>>,
                        !.price = price,
                        !.taken = <<byEngine, byMonitor>>,
                        !.n = probe.n + 1]
    /\ UNCHANGED <<engineVars, monitorVars, net, store, manual>>

NextRules ==
    \/ \E price \in ProbePrices, direction \in Directions, mode \in DOMAIN RISK_CONFIGS :
           ProbeOpen(ProbeSetup(price, direction, mode, FALSE, 1))
    \/ \E units \in 98..101, cents \in {0, 25, 50, 75} : ProbeExits(P(units, cents))
    \/ ProbeExits(0)

SpecRules == InitRecord /\ [][NextRules]_vars

----------------------------------------------------------------------------
(* scanForSignals: the confidence of a signal and the gate of the preset *)

\* A confidence that starts from the draw alone.
ConfidenceFromDraw(roll, condition, volatility, momentum) ==
    roll
    + (IF condition = "TRENDING_UP" /\ momentum > 0 THEN 2 ELSE 0)
    + (IF condition = "TRENDING_DOWN" /\ momentum < 0 THEN 2 ELSE 0)
    + (IF volatility \in {"HIGH", "EXTREME"} THEN 3 ELSE 0)

\* 8 + Math.floor(Math.random() * 8), roll being the floor, and the three bonuses.
Confidence(roll, condition, volatility, momentum) ==
    8 + roll
    + (IF condition = "TRENDING_UP" /\ momentum > 0 THEN 2 ELSE 0)
    + (IF condition = "TRENDING_DOWN" /\ momentum < 0 THEN 2 ELSE 0)
    + (IF volatility \in {"HIGH", "EXTREME"} THEN 3 ELSE 0)

\* One asset's turn in adaptiveScan under a preset: the price, slot and cooldown guards,
\* then the confidence gate; regime holds marketCondition and volatilityLevel.
ProbeScan(mode, price, occupied, elapsed, roll, regime, momentum) ==
    /\ probe.phase = "idle"
    /\ LET confidence == Confidence(roll, regime[1], regime[2], momentum)
           scanned == price > 0 /\ ~occupied /\ elapsed
       IN  probe' = [phase |-> "scan", mode |-> mode, price |-> price,
                     occupied |-> occupied, elapsed |-> elapsed,
                     regime |-> regime, momentum |-> momentum,
                     confidence |-> IF scanned THEN confidence ELSE 0,
                     admitted |-> scanned
                                  /\ confidence >= RISK_CONFIGS[mode].minConfidence]
    /\ UNCHANGED <<engineVars, monitorVars, net, store, manual>>

NextConfidence ==
    \E mode \in DOMAIN RISK_CONFIGS, price \in {0, P(100, 0)}, occupied \in BOOLEAN,
       elapsed \in BOOLEAN, roll \in 0..7,
       regime \in MarketConditions \X {"LOW", "NORMAL", "HIGH", "EXTREME"},
       momentum \in {-1, 0, 1} :
        ProbeScan(mode, price, occupied, elapsed, roll, regime, momentum)

SpecConfidence == InitRecord /\ [][NextConfidence]_vars

----------------------------------------------------------------------------
(* Properties *)

EngineTrades == tradeDatabase.trades
TicksAtAwait == {t \in TickIds : ticks[t].pc # "idle"}

\* C1: in the primary engine, under overlapping scan ticks, a new PositionSetup is
\* installed into an asset's slot only when that slot is empty: a position in the slot
\* is never replaced by another one.
C1_AdmitOnlyIntoEmptySlot ==
    [][\A a \in Asset :
          (activeTrades[a] # <<>> /\ activeTrades'[a] # <<>>)
              => activeTrades'[a][1].ts = activeTrades[a][1].ts]_vars

\* A second position of an asset sits in its slot, admitted while two ticks overlap.
C1_Witness ==
    \E a \in Asset :
        /\ activeTrades[a] # <<>>
        /\ activeTrades[a][1].ts = 2
        /\ \E i \in 1..Len(EngineTrades) : EngineTrades[i].asset = a
        /\ Cardinality(TicksAtAwait) = 2

\* C6: a BULLISH position opened at 100 under the conservative preset that closes as WIN
\* (prices 100, 100.8, 101.3) has realizedPnL 25: the WIN formula with the original stop
\* distance 0.005 and the target distance 0.0125.
C6_EndToEndWinPnL ==
    \A i \in 1..Len(EngineTrades) :
        (/\ EngineTrades[i].setup.direction = "BULLISH"
         /\ EngineTrades[i].setup.entryPrice = P(100, 0)
         /\ EngineTrades[i].outcome = "WIN")
            => EngineTrades[i].profit = 25 * PnLScale

\* The step in which tick t fires a terminal rule for the position in the slot of asset a
\* and clears the slot at once, recordTradeOutcome having returned at a guard.
ClearsOnRule(t, a) ==
    /\ ticks[t].pc # "rec_save"
    /\ ticks'[t].pc = "clr_save"
    /\ Assets[ticks'[t].i] = a
    /\ ticks'[t] # ticks[t]

\* C9: whenever a terminal rule fires for a position and its slot is cleared, trades holds
\* a TradeRecord of that position with that outcome, also when an earlier TradeRecord of
\* the asset has the same outcome and an entry price within 0.5.
C9_ClosedPositionHasRecord ==
    [][\A t \in TickIds, a \in Asset :
          (ClearsOnRule(t, a) /\ ~activeTrades[a][1].recorded)
              => \E i \in 1..Len(tradeDatabase'.trades) :
                    /\ tradeDatabase'.trades[i].asset = a
                    /\ tradeDatabase'.trades[i].setup.ts = activeTrades[a][1].ts
                    /\ tradeDatabase'.trades[i].outcome =
                           EngineRule(activeTrades[a][1], currentPrices[a])]_vars

\* The trade lists of the two processes and of the store.
TradeLists == {tradeDatabase.trades, monitor.trades, store.trades}

OneRecordPerPosition(trades) ==
    \A i, j \in 1..Len(trades) :
        (trades[i].asset = trades[j].asset /\ trades[i].setup.ts = trades[j].setup.ts)
            => i = j

\* C2: the trades list of each process and of the store holds at most one TradeRecord
\* per (asset, open timestamp of the position).
C2_OneRecordPerPosition == \A trades \in TradeLists : OneRecordPerPosition(trades)

\* C3: calling the engine's recordTradeOutcome again for the same close, with the same
\* setup object or with a reloaded copy whose recorded flag is unset, changes neither
\* trades nor the performance: the close has the one TradeRecord the first call made
\* (or the earlier one the first call took it for), and the counters changed once.
C3_RecordTwiceRecordsOnce ==
    (probe.phase = "called" /\ probe.calls >= 2)
        => /\ tradeDatabase = probe.after
           /\ \E i \in 1..Len(EngineTrades) :
                 /\ EngineTrades[i].asset = probe.asset
                 /\ EngineTrades[i].outcome = probe.outcome
                 /\ Abs(EngineTrades[i].setup.entryPrice - probe.setup.entryPrice)
                        < DupDistance
           /\ Cardinality({i \in 1..Len(EngineTrades) :
                              /\ EngineTrades[i].asset = probe.asset
                              /\ EngineTrades[i].setup.ts = probe.setup.ts})
                  = (IF probe.appended THEN 1 ELSE 0)

\* The first call made a record, and both kinds of further call followed.
C3_Witness ==
    /\ probe.phase = "called"
    /\ probe.calls = MaxCalls
    /\ probe.appended
    /\ probe.reloaded
    /\ probe.setup.recorded
    /\ Len(EngineTrades) = 2

Target1Kept(before, after) ==
    (before.ts = after.ts /\ before.reachedTarget1) => after.reachedTarget1

\* C4: within the engine and within the exit-monitor, a position whose reachedTarget1 is
\* true keeps it true for as long as it is in the slot, and so does its TradeRecord.
C4_Target1NeverReverts ==
    [][/\ \A a \in Asset :
             (activeTrades[a] # <<>> /\ activeTrades'[a] # <<>>)
                 => Target1Kept(activeTrades[a][1], activeTrades'[a][1])
       /\ \A a \in Asset :
             (monitor.obj[a] # <<>> /\ monitor'.obj[a] # <<>>)
                 => Target1Kept(monitor.obj[a][1], monitor'.obj[a][1])
       /\ \A i \in 1..Len(EngineTrades) :
             i <= Len(tradeDatabase'.trades)
                 => Target1Kept(EngineTrades[i].setup, tradeDatabase'.trades[i].setup)
       /\ \A i \in 1..Len(monitor.trades) :
             (monitor.running /\ i <= Len(monitor'.trades))
                 => Target1Kept(monitor.trades[i].setup, monitor'.trades[i].setup)]_vars

\* Both processes hold a record of a position that reached target 1, and the
\* exit-monitor holds a position it armed.
C4_Witness ==
    /\ \E i \in 1..Len(EngineTrades) : EngineTrades[i].setup.reachedTarget1
    /\ \E i \in 1..Len(monitor.trades) : monitor.trades[i].setup.reachedTarget1
    /\ \E a \in Asset : /\ activeTrades[a] # <<>>
                        /\ activeTrades[a][1].reachedTarget1
                        /\ activeTrades[a][1].recorded

\* The price satisfies the target 2 condition and the breakeven stop condition of a
\* position that reached target 1.
BothCrossed(setup, price) ==
    /\ setup.reachedTarget1
    /\ ~setup.reachedTarget2
    /\ price > 0
    /\ IF setup.direction = "BULLISH"
       THEN price >= setup.t2 /\ price <= setup.stop
       ELSE price <= setup.t2 /\ price >= setup.stop

Last(seq) == seq[Len(seq)]

\* C5: when a scan of the engine, or a check of the exit-monitor, meets a position with
\* reachedTarget1 at a price that satisfies both the target 2 condition and the
\* breakeven stop condition, the position is recorded as WIN, not as BREAKEVEN.
C5_WinBeforeBreakeven ==
    [][/\ \A a \in Asset :
             (/\ activeTrades[a] # <<>>
              /\ ~activeTrades[a][1].recorded
              /\ BothCrossed(activeTrades[a][1], currentPrices[a])
              /\ activeTrades'[a] # activeTrades[a])
                 => /\ Len(tradeDatabase'.trades) = Len(EngineTrades) + 1
                    /\ Last(tradeDatabase'.trades).asset = a
                    /\ Last(tradeDatabase'.trades).setup.ts = activeTrades[a][1].ts
                    /\ Last(tradeDatabase'.trades).outcome = "WIN"
       /\ \A c \in CycleIds :
             (/\ cycles'[c].pc = "post"
              /\ cycles[c].pc # "post"
              /\ monitor.slot[Assets[cycles'[c].i]]
              /\ BothCrossed(monitor.obj[Assets[cycles'[c].i]][1],
                             cycles'[c].prices[Assets[cycles'[c].i]]))
                 => /\ Len(monitor'.trades) = Len(monitor.trades) + 1
                    /\ Last(monitor'.trades).asset = Assets[cycles'[c].i]
                    /\ Last(monitor'.trades).outcome = "WIN"
                    /\ ~monitor'.slot[Assets[cycles'[c].i]]]_vars

\* Both processes have just recorded a position at a price beyond its target 2 and
\* beyond its stop.
C5_Witness ==
    /\ \E t \in TickIds :
          /\ ticks[t].pc = "rec_save"
          /\ Len(EngineTrades) = 1
          /\ EngineTrades[1].outcome = "WIN"
          /\ BothCrossed(EngineTrades[1].setup, currentPrices[EngineTrades[1].asset])
    /\ \E c \in CycleIds :
          /\ cycles[c].pc = "post"
          /\ Len(monitor.trades) = 1
          /\ monitor.trades[1].outcome = "WIN"
          /\ BothCrossed(monitor.trades[1].setup, cycles[c].prices[monitor.trades[1].asset])

\* C7: a WIN is recorded with realizedPnL = (riskCapital / stopPct) x targetPct when the
\* stop distance and the target 2 distance are both positive, and with riskCapital x 3
\* when either is 0; the engine's recorder and the exit-monitor's agree.
C7_WinPnLFormula ==
    \A trades \in {EngineTrades, monitor.trades} :
        \A i \in 1..Len(trades) :
            trades[i].outcome = "WIN"
                => LET stopDistance == Abs(trades[i].setup.stop - trades[i].setup.entryPrice)
                       targetDistance == Abs(trades[i].setup.t2 - trades[i].setup.entryPrice)
                   IN  IF stopDistance > 0 /\ targetDistance > 0
                       THEN trades[i].profit * stopDistance
                                = RISK_PER_TRADE * PnLScale * targetDistance
                       ELSE trades[i].profit = RISK_PER_TRADE * 3 * PnLScale

\* A WIN at stop distance 0.5 % and target distance 1.25 % recorded with 25, and a WIN
\* with the stop at the entry price recorded with 30.
C7_Witness ==
    /\ \E i \in 1..Len(EngineTrades) :
          /\ EngineTrades[i].outcome = "WIN"
          /\ EngineTrades[i].setup.entryPrice = P(100, 0)
          /\ EngineTrades[i].setup.stop = P(99, 50)
          /\ EngineTrades[i].setup.t2 = P(101, 25)
          /\ EngineTrades[i].profit = 25 * PnLScale
    /\ \E i \in 1..Len(EngineTrades) :
          /\ EngineTrades[i].outcome = "WIN"
          /\ EngineTrades[i].setup.stop = EngineTrades[i].setup.entryPrice
          /\ EngineTrades[i].profit = 30 * PnLScale

\* C8: every TradeRecord with outcome LOSS has realizedPnL = -riskCapital, whichever
\* path recorded it: a scan of the engine, a check of the exit-monitor, a manual close.
C8_LossPnL ==
    \A trades \in TradeLists :
        \A i \in 1..Len(trades) :
            trades[i].outcome = "LOSS" => trades[i].profit = -(RISK_PER_TRADE * PnLScale)

CountersMatch(trades, performance) ==
    /\ performance.totalTrades = Len(trades)
    /\ performance.winners = CountOutcome(trades, "WIN")
    /\ performance.losers = CountOutcome(trades, "LOSS")
    /\ performance.breakevenTrades = CountOutcome(trades, "BREAKEVEN")

\* C10: in the engine, in the exit-monitor, in the store and in every blob on its way to
\* the store, totalTrades is the length of trades, and winners, losers and
\* breakevenTrades are the numbers of TradeRecords with outcome WIN, LOSS and BREAKEVEN.
C10_CountersReplayTrades ==
    /\ CountersMatch(tradeDatabase.trades, tradeDatabase.performance)
    /\ CountersMatch(monitor.trades, monitor.perf)
    /\ CountersMatch(store.trades, store.performance)
    /\ \A m \in net : CountersMatch(m.blob.trades, m.blob.performance)
    /\ \A i \in 1..Len(manual) :
          \A j \in 1..Len(manual[i].data) :
              CountersMatch(manual[i].data[j].trades, manual[i].data[j].performance)

\* The engine and the exit-monitor have each recorded a close, and the store holds a
\* manual close.
C10_Witness ==
    /\ Len(EngineTrades) >= 1
    /\ \E i \in 1..Len(monitor.trades) :
          monitor.trades[i].closedBy = "AUTONOMOUS_EXIT_ENGINE"
    /\ \E i \in 1..Len(store.trades) : store.trades[i].closedBy = "MANUAL_API"

\* C11: in the primary engine, performance.totalProfit is the sum of the profit of all
\* TradeRecords in trades.
C11_TotalProfitIsSum ==
    tradeDatabase.performance.totalProfit = SumProfit(EngineTrades)

\* The step in which generateAISetup installs a new PositionSetup for asset a.
Admits(a) ==
    /\ nextTs' = nextTs + 1
    /\ activeTrades'[a] # <<>>
    /\ activeTrades'[a][1].ts = nextTs'

\* C12: the primary engine admits no position for an asset whose price window holds fewer
\* than 3 samples.
C12_NoAdmissionBelowThreeSamples ==
    [][\A a \in Asset : Admits(a) => priceHistory[a] >= MinSamples]_vars

\* C13: within one run of the primary engine, two consecutive admissions for an asset are
\* at least 60 seconds apart: none happens less than 60 seconds after the one before it.
C13_AdmissionsSixtySecondsApart ==
    [][\A a \in Asset : Admits(a) => sinceAdmit[a] >= CooldownUnits]_vars

\* The step in which tick t admits a position for asset a.
AdmitsBy(t, a) == Admits(a) /\ ticks'[t] # ticks[t]

\* C14: within one scan tick, the exit resolution of an asset's position, its store
\* writes included, is over before the tick evaluates the admission for that asset: a
\* tick admits only in a step that begins with the slot empty and with the tick not
\* waiting for the save of a TradeRecord of that asset, the clear still ahead of it.
C14_ExitResolvedBeforeAdmission ==
    [][\A t \in TickIds, a \in Asset :
          AdmitsBy(t, a)
              => /\ activeTrades[a] = <<>>
                 /\ ~(ticks[t].pc = "rec_save" /\ Assets[ticks[t].i] = a)]_vars

\* One tick is under way: it waits for the save of the second position of an asset, which
\* it admitted at the price that closed the first one.
C14_Witness ==
    \E t \in TickIds, a \in Asset :
        /\ TicksAtAwait = {t}
        /\ ticks[t].pc = "gen_save" /\ Assets[ticks[t].i] = a
        /\ activeTrades[a] # <<>>
        /\ activeTrades[a][1].ts = 2
        /\ activeTrades[a][1].entryPrice = currentPrices[a]
        /\ \E i \in 1..Len(EngineTrades) :
              /\ EngineTrades[i].asset = a
              /\ EngineTrades[i].setup.ts = 1
              /\ EngineRule(EngineTrades[i].setup, currentPrices[a]) = EngineTrades[i].outcome

\* C15: with the engine and the exit-monitor on the same store, every change of the stored
\* blob replaces it by one writer's full snapshot, the body of a POST that arrives or the
\* data the exit-monitor's save() writes: nothing of the blob it replaces is kept.
C15_StoreIsLastSnapshot ==
    [][store' # store
          => \/ \E m \in net : store' = m.blob /\ net' = net \ {m}
             \/ \E c \in CycleIds :
                   /\ cycles[c].pc = "post" /\ cycles'[c].pc = "write"
                   /\ store' = MonitorBlob(MonitorState(0))]_vars

\* Every save() of the exit-monitor has written its data, a TradeRecord the exit-monitor
\* made among them, and the store holds no such TradeRecord: a snapshot the engine posted
\* replaced it.
C15_Witness ==
    /\ \A c \in CycleIds : cycles[c].pc # "post"
    /\ \E i \in 1..Len(monitor.trades) :
          monitor.trades[i].closedBy = "AUTONOMOUS_EXIT_ENGINE"
    /\ \A j \in 1..Len(store.trades) :
          store.trades[j].closedBy # "AUTONOMOUS_EXIT_ENGINE"
    /\ store.activeTrades["btc"] # <<>>

\* The step in which POST /api/trades/close takes a request.
ManualTakes == manual = <<>> /\ manual' # <<>>

\* C16: a manual close with an outcome and an exit price, naming an asset whose slot in
\* the store holds a position the primary engine opened, saves data in which that slot is
\* empty and trades has one more TradeRecord, with the given outcome and closed manually.
C16_ManualCloseOfEnginePosition ==
    [][(/\ ManualTakes
        /\ manual'[1].asset \in Asset
        /\ manual'[1].outcome # "" /\ manual'[1].exitPrice # 0
        /\ store.activeTrades[manual'[1].asset] # <<>>
        /\ ~store.activeTrades[manual'[1].asset][1].wrapped)
           => /\ manual'[1].data # <<>>
              /\ LET data == manual'[1].data[1]
                 IN  /\ data.activeTrades[manual'[1].asset] = <<>>
                     /\ Len(data.trades) = Len(store.trades) + 1
                     /\ Last(data.trades).outcome = manual'[1].outcome
                     /\ Last(data.trades).closedBy = "MANUAL_API"]_vars

\* The request lacks a field, or names an asset with no active position in the store.
ManualIncomplete(request, data) ==
    \/ request.asset = "" \/ request.outcome = "" \/ request.exitPrice = 0
    \/ data.activeTrades[request.asset] = <<>>

\* C17: a manual close that lacks asset, outcome or exitPrice, or names an asset with no
\* active position, is answered 400 or 404 and writes nothing: the store is the same
\* after the handler took the request and after it answered.
C17_RejectedCloseWritesNothing ==
    [][/\ (ManualTakes /\ ManualIncomplete(manual'[1], store))
            => /\ manual'[1].status \in {400, 404}
               /\ manual'[1].data = <<>>
               /\ store' = store
       /\ (manual # <<>> /\ manual[1].status # 200 /\ manual' = <<>>)
            => store' = store]_vars

\* A request without an outcome for eth, whose slot in the store holds a position, has
\* been taken and not answered yet.
C17_Witness ==
    /\ manual # <<>>
    /\ manual[1].asset = "eth" /\ manual[1].outcome = ""
    /\ manual[1].status = 400
    /\ store.activeTrades["eth"] # <<>>
    /\ store.activeTrades["eth"][1].wrapped

\* The engine's local data are the store's blob, or the values the module starts with.
LocalDataFrom(data) ==
    /\ activeTrades' = data.activeTrades
    /\ tradeDatabase' = [trades |-> data.trades, performance |-> data.performance]

\* The tick loop goes on: a scan can begin, and a scan at an await can go on.
TickLoopRuns ==
    nextTs < SystemEnv.opens
        => IF ticks[1].pc = "idle" THEN ENABLED TickStart(1, EngineRolls, SystemEnv)
           ELSE ENABLED TickResume(1, EngineRolls, SystemEnv)

LoadedAsRecorded(a) ==
    /\ TicksAtAwait = {}
    /\ activeTrades[a] # <<>>
    /\ activeTrades[a][1].recorded
    /\ \E i \in 1..Len(EngineTrades) :
          /\ EngineTrades[i].asset = a
          /\ EngineTrades[i].setup.ts = activeTrades[a][1].ts

\* C19: after a restart the engine adds no second TradeRecord for a position the loaded
\* snapshot already records: trades never holds two TradeRecords of one position, and
\* the scan that fires a terminal rule for a position loaded with recorded = true and
\* its TradeRecord only clears the slot, trades and performance staying as they are.
C19_LoadedRecordedPositionOnlyCleared ==
    [][/\ OneRecordPerPosition(tradeDatabase'.trades)
       /\ \A t \in TickIds, a \in Asset :
             (/\ LoadedAsRecorded(a)
              /\ ticks'[t].pc \in {"rec_save", "clr_save"}
              /\ Assets[ticks'[t].i] = a)
                => /\ ticks'[t].pc = "clr_save"
                   /\ activeTrades'[a] = <<>>
                   /\ tradeDatabase' = tradeDatabase]_vars

\* The engine, started a second time, has loaded a btc position with recorded = true and
\* its TradeRecord, and the price it now sees fires a terminal rule of that position.
C19_Witness ==
    /\ runs = 2
    /\ LoadedAsRecorded("btc")
    /\ currentPrices["btc"] > 0
    /\ EngineRule(activeTrades["btc"][1], currentPrices["btc"]) \in Outcomes

\* C20: with the primary engine as the only writer and every save() answered by the
\* store, once no save() is in flight the store's blob is the engine's local state.
C20_StoreEqualsEngineState ==
    net = {} => store = EngineBlob(EngineState(AnsweringEnv))

\* C21: for price p and a preset with stop fraction s and multipliers m1, m2,
\* calculateSetupLevels returns stop = p(1-s), t1 = p(1+s*m1), t2 = p(1+s*m2) for BULLISH
\* and stop = p(1+s), t1 = p(1-s*m1), t2 = p(1-s*m2) for BEARISH (s in thousandths,
\* m1, m2 in tenths and p = 10000 q here); p = 100 under the conservative preset gives
\* 99.5, 100.75 and 101.25.
C21_SetupLevels ==
    probe.phase = "levels"
        => LET p == probe.price
               q == p \div 10000
               s == RISK_CONFIGS[probe.mode].stopPct
               m1 == RISK_CONFIGS[probe.mode].target1
               m2 == RISK_CONFIGS[probe.mode].target2
               l == probe.levels
           IN  /\ p = q * 10000
               /\ probe.direction = "BULLISH"
                    => /\ l.stop = q * 10 * (1000 - s)
                       /\ l.t1 = q * (10000 + s * m1)
                       /\ l.t2 = q * (10000 + s * m2)
               /\ probe.direction = "BEARISH"
                    => /\ l.stop = q * 10 * (1000 + s)
                       /\ l.t1 = q * (10000 - s * m1)
                       /\ l.t2 = q * (10000 - s * m2)
               /\ (p = P(100, 0) /\ probe.mode = "conservative"
                                 /\ probe.direction = "BULLISH")
                    => l.stop = P(99, 50) /\ l.t1 = P(100, 75) /\ l.t2 = P(101, 25)

\* The levels of a BEARISH position at 100 under the conservative preset have been
\* computed: the stop lies above the price.
C21_Witness ==
    /\ probe.phase = "levels"
    /\ probe.price = P(100, 0)
    /\ probe.direction = "BEARISH"
    /\ probe.mode = "conservative"
    /\ probe.levels.stop = P(100, 50)

\* C22: for an asset whose window holds at least 5 samples, the trend label is
\* TRENDING_UP exactly when last price - first price of the last 5 samples exceeds
\* 0.02 * current price, TRENDING_DOWN exactly when it is below -0.02 * current price,
\* and RANGING otherwise.
C22_TrendLabelOfWindow ==
    probe.phase = "regime"
        => \A a \in Asset :
              Len(probe.history[a]) >= 5
                  => LET w == probe.history[a]
                         n == Len(w)
                         trend == w[n] - w[n - 4]
                     IN  /\ probe.marketCondition = "TRENDING_UP" <=> trend * 50 > w[n]
                         /\ probe.marketCondition = "TRENDING_DOWN" <=> trend * 50 < -w[n]

\* C23: every TradeRecord in a process's trades list or in the store has an outcome in
\* {WIN, LOSS, BREAKEVEN}, whichever path recorded it: a close with the outcome ACTIVE,
\* OPEN or none produces no TradeRecord.
C23_RecordedOutcomesTerminal ==
    /\ \A i \in 1..Len(tradeDatabase.trades) : tradeDatabase.trades[i].outcome \in Outcomes
    /\ \A i \in 1..Len(monitor.trades) : monitor.trades[i].outcome \in Outcomes
    /\ \A i \in 1..Len(store.trades) : store.trades[i].outcome \in Outcomes

\* trades holds a TradeRecord of the asset's position setup.
HasRecord(trades, asset, setup) ==
    \E i \in 1..Len(trades) :
        trades[i].asset = asset /\ trades[i].setup.ts = setup.ts

RecordedHaveRecord(trades, active) ==
    \A a \in Asset :
        (active[a] # <<>> /\ active[a][1].recorded) => HasRecord(trades, a, active[a][1])

\* C24: in the engine, wherever another tick can run and in every snapshot the engine
\* sends, a position with recorded = true has its TradeRecord in trades; the flag of a
\* position turns true only in a step that appends the position's TradeRecord, and it
\* never turns false again.
C24_RecordedOnlyWithRecord ==
    /\ [](/\ RecordedHaveRecord(tradeDatabase.trades, activeTrades)
          /\ \A m \in net :
                m.from = "engine" => RecordedHaveRecord(m.blob.trades, m.blob.activeTrades))
    /\ [][\A a \in Asset :
             (/\ activeTrades[a] # <<>> /\ activeTrades'[a] # <<>>
              /\ activeTrades[a][1].ts = activeTrades'[a][1].ts)
                 => /\ activeTrades[a][1].recorded => activeTrades'[a][1].recorded
                    /\ (~activeTrades[a][1].recorded /\ activeTrades'[a][1].recorded)
                         => /\ Len(tradeDatabase'.trades) = Len(tradeDatabase.trades) + 1
                            /\ Last(tradeDatabase'.trades).asset = a
                            /\ Last(tradeDatabase'.trades).setup.ts = activeTrades[a][1].ts
                            /\ Last(tradeDatabase'.trades).setup.recorded]_vars

\* A tick is at the await of the save of a TradeRecord, the recorded position still in
\* its slot and in the snapshot in flight, while another tick may start.
C24_Witness ==
    /\ \E t \in TickIds : ticks[t].pc = "rec_save"
    /\ \E t \in TickIds : ticks[t].pc = "idle"
    /\ activeTrades["btc"] # <<>> /\ activeTrades["btc"][1].recorded
    /\ \E m \in net : /\ m.from = "engine"
                      /\ m.blob.activeTrades["btc"] # <<>>
                      /\ m.blob.activeTrades["btc"][1].recorded

\* C25: a successful POST of a blob followed by a GET with no write in between returns
\* the posted trades, activeTrades and performance, a key missing from the posted blob
\* being replaced by its default (no trades, both slots empty, all-zero performance).
C25_GetReturnsPosted ==
    probe.phase = "got"
        => \A k \in BlobKeys :
              IF k \in DOMAIN probe.posted
              THEN Given(probe.got[k]) = probe.posted[k]
              ELSE probe.got[k] = DefaultData[k]

\* C25 as the handler has it: a key that is missing from the posted blob or null in it
\* is replaced by its default; every other key comes back as posted.
C25_GetReturnsPostedOrDefault ==
    probe.phase = "got"
        => \A k \in BlobKeys :
              IF k \notin DOMAIN probe.posted THEN probe.got[k] = DefaultData[k]
              ELSE IF probe.posted[k] = JsonNull THEN probe.got[k] = DefaultData[k]
              ELSE Given(probe.got[k]) = probe.posted[k]

\* A GET has answered after the POST of a blob with a position and no trades key, a
\* later POST having failed.
C25_Witness ==
    /\ probe.phase = "got"
    /\ probe.failed
    /\ "trades" \notin DOMAIN probe.posted
    /\ "activeTrades" \in DOMAIN probe.posted
    /\ probe.posted["activeTrades"] # JsonNull
    /\ probe.got.activeTrades["btc"] # <<>>
    /\ probe.got.trades = <<>>

\* The last n elements of a sequence, all of it when it is shorter.
LastOf(seq, n) ==
    IF Len(seq) <= n THEN seq ELSE SubSeq(seq, Len(seq) - n + 1, Len(seq))

\* C26: after any sequence of ticks the price window of each asset holds at most 50
\* samples, the most recently accepted ticks in arrival order; a tick whose price is
\* not positive changes neither the window nor the current price.
C26_WindowIsLastFifty ==
    /\ [](probe.phase = "window"
            => \A a \in Asset :
                  /\ Len(probe.history[a]) <= 50
                  /\ probe.history[a] = LastOf(probe.accepted[a], 50))
    /\ [][(probe'.phase = "window" /\ probe'.last.price <= 0)
             => /\ probe'.history = Windows.history
                /\ probe'.current = Windows.current]_vars

\* A 52nd tick was accepted for btc: the window has let go of the two oldest samples;
\* the message after it quoted zero.
C26_Witness ==
    /\ probe.phase = "window"
    /\ Len(probe.accepted["btc"]) = 52
    /\ Len(probe.history["btc"]) = 50
    /\ probe.history["btc"][1] = P(3, 0)
    /\ probe.current["btc"] = P(52, 0)
    /\ probe.last = [asset |-> "btc", price |-> 0]

\* C27: on a termination signal each writer process, the primary engine and the
\* exit-monitor, issues one final save() of its local state before it exits.
C27_FinalSaveBeforeExit ==
    /\ Signals.engine = "exited" => "engine" \in Signals.final
    /\ Signals.monitor = "exited" => "monitor" \in Signals.final

\* A call of recordTradeOutcome returns in this step.
RecordCalled ==
    /\ probe'.phase = "guard"
    /\ probe'.calls = (IF probe.phase = "guard" THEN probe.calls + 1 ELSE 1)

\* C28: when one of the three guards of the engine's recordTradeOutcome fails (the
\* outcome is not terminal, the position is already recorded, or trades holds a record
\* of the asset with the same outcome and an entry price less than 0.5 away), the call
\* leaves trades, performance and the position's recorded flag as they are and issues no
\* write to the store.
C28_GuardedCallChangesNothing ==
    [][(/\ RecordCalled
        /\ \/ probe'.outcome \in {"", "ACTIVE", "OPEN"}
           \/ probe'.before.recorded
           \/ \E i \in 1..Len(tradeDatabase.trades) :
                 /\ tradeDatabase.trades[i].asset = probe'.asset
                 /\ tradeDatabase.trades[i].outcome = probe'.outcome
                 /\ Abs(tradeDatabase.trades[i].setup.entryPrice
                           - probe'.before.entryPrice) * 2 < Scale)
           => /\ tradeDatabase' = tradeDatabase
              /\ probe'.setup = probe'.before
              /\ net' = net
              /\ store' = store]_vars

\* After a WIN was recorded and its save reached the store, a call for another position
\* 0.40 away with the same outcome has returned at the duplicate check.
C28_Witness ==
    /\ probe.phase = "guard"
    /\ probe.calls = 2
    /\ probe.outcome = "WIN"
    /\ ~probe.before.recorded /\ ~probe.setup.recorded
    /\ Len(tradeDatabase.trades) = 1
    /\ tradeDatabase.trades[1].setup.entryPrice # probe.before.entryPrice
    /\ net = {}
    /\ Len(store.trades) = 1

\* The price has crossed the level in the position's direction.
CrossedUp(setup, level, price) ==
    /\ price > 0
    /\ IF setup.direction = "BULLISH" THEN price >= level ELSE price <= level

\* after is before with target 1 reached and the stop moved to the middle of the entry
\* band, the stop it had kept as originalStop.
ArmedFrom(before, after) ==
    /\ after.reachedTarget1
    /\ after.originalStop = before.stop
    /\ after.stop * 2 = before.entryMin + before.entryMax
    /\ after = [before EXCEPT !.reachedTarget1 = TRUE, !.originalStop = after.originalStop,
                              !.stop = after.stop]

\* Tick t runs updateTradeStatus for the asset in this step and stops at an await there.
TickStopsAt(t, a) ==
    /\ ticks'[t] # ticks[t]
    /\ ticks'[t].pc \in {"t1_save", "rec_save", "clr_save"}
    /\ Assets[ticks'[t].i] = a
    /\ ticks[t].pc = "idle" \/ ticks'[t].i > ticks[t].i

\* Cycle c runs checkTradeExits for the asset in this step and stops at its save.
CycleStopsAt(c, a) ==
    /\ cycles'[c] # cycles[c]
    /\ cycles'[c].pc = "post"
    /\ Assets[cycles'[c].i] = a
    /\ cycles[c].pc = "fetch" \/ cycles'[c].i > cycles[c].i

\* C29: a tick that finds a position with reachedTarget1 = false and the price past
\* target 1 only arms it, also when the price is past target 2: reachedTarget1 turns
\* true, originalStop takes the stop, the stop moves to the middle of the entry band,
\* the tick is at the await of its save, the position stays in its slot and no
\* TradeRecord is added; back from that save the tick leaves the position and trades as
\* they are.  The same holds for a check cycle of the exit-monitor.
C29_Target1OnlyArms ==
    [][/\ \A t \in TickIds, a \in Asset :
             (/\ TickStopsAt(t, a)
              /\ activeTrades[a] # <<>>
              /\ ~activeTrades[a][1].wrapped
              /\ ~activeTrades[a][1].reachedTarget1
              /\ CrossedUp(activeTrades[a][1], activeTrades[a][1].t1, currentPrices[a]))
                 => /\ ticks'[t].pc = "t1_save"
                    /\ activeTrades'[a] # <<>>
                    /\ ArmedFrom(activeTrades[a][1], activeTrades'[a][1])
                    /\ Len(tradeDatabase'.trades) = Len(tradeDatabase.trades)
                    /\ net = {} => \E m \in net' : /\ m.from = "engine"
                                                  /\ m.blob.activeTrades[a] = activeTrades'[a]
       /\ \A t \in TickIds :
             (ticks[t].pc = "t1_save" /\ ticks'[t] # ticks[t])
                 => /\ activeTrades'[Assets[ticks[t].i]] = activeTrades[Assets[ticks[t].i]]
                    /\ \A i \in 1..Len(tradeDatabase'.trades) :
                          i > Len(tradeDatabase.trades)
                              => tradeDatabase'.trades[i].asset # Assets[ticks[t].i]
       /\ \A c \in CycleIds, a \in Asset :
             (/\ CycleStopsAt(c, a)
              /\ monitor.obj[a] # <<>>
              /\ ~monitor.obj[a][1].reachedTarget1
              /\ CrossedUp(monitor.obj[a][1], monitor.obj[a][1].t1, cycles'[c].prices[a]))
                 => /\ monitor'.obj[a] # <<>>
                    /\ monitor'.slot[a]
                    /\ ArmedFrom(monitor.obj[a][1], monitor'.obj[a][1])
                    /\ Len(monitor'.trades) = Len(monitor.trades)]_vars

\* Both processes have armed a position at a price past target 2 and are at the awaits
\* of their saves, no TradeRecord in either list.
C29_Witness ==
    /\ \E t \in TickIds :
          /\ ticks[t].pc = "t1_save"
          /\ activeTrades[Assets[ticks[t].i]] # <<>>
          /\ LET trade == activeTrades[Assets[ticks[t].i]][1]
             IN  /\ trade.reachedTarget1
                 /\ CrossedUp(trade, trade.t2, currentPrices[Assets[ticks[t].i]])
    /\ \E c \in CycleIds :
          /\ cycles[c].pc = "post"
          /\ monitor.obj[Assets[cycles[c].i]] # <<>>
          /\ LET setup == monitor.obj[Assets[cycles[c].i]][1]
             IN  /\ setup.reachedTarget1
                 /\ CrossedUp(setup, setup.t2, cycles[c].prices[Assets[cycles[c].i]])
    /\ tradeDatabase.trades = <<>>
    /\ monitor.trades = <<>>

\* The price is at or beyond the stop the position was opened with.
AtOriginalStop(before, price) ==
    /\ price > 0
    /\ before.stop = calculateSetupLevels(before.entryPrice, before.direction,
                                          RISK_CONFIGS[riskMode]).stop
    /\ IF before.direction = "BULLISH" THEN price <= before.stop ELSE price >= before.stop

\* The record agrees with the position it closes, as the position was before the step.
ClosesAsRuled(rec, before, price) ==
    /\ rec.setup.ts = before.ts
    /\ rec.outcome \in {"WIN", "BREAKEVEN"}
         => before.reachedTarget1 /\ rec.setup.reachedTarget1
    /\ rec.outcome = "LOSS"
         => /\ ~before.reachedTarget1 /\ ~rec.setup.reachedTarget1
            /\ AtOriginalStop(before, price)
    /\ rec.outcome = "BREAKEVEN" => rec.profit = 0

\* C30: every TradeRecord the tick logic of the engine or of the exit-monitor appends
\* closes its position consistently: WIN and BREAKEVEN only for a position whose
\* reachedTarget1 is true at the close, LOSS only for one whose reachedTarget1 is false
\* and whose original stop the price has crossed, and BREAKEVEN with a profit of 0.
C30_OutcomeMatchesTarget1 ==
    [][/\ Len(tradeDatabase'.trades) > Len(tradeDatabase.trades)
            => LET rec == Last(tradeDatabase'.trades)
               IN  /\ activeTrades[rec.asset] # <<>>
                   /\ ClosesAsRuled(rec, activeTrades[rec.asset][1],
                                     currentPrices[rec.asset])
       /\ (monitor.running /\ Len(monitor'.trades) > Len(monitor.trades))
            => LET rec == Last(monitor'.trades)
               IN  /\ monitor.obj[rec.asset] # <<>>
                   /\ \E c \in CycleIds :
                         /\ cycles'[c] # cycles[c]
                         /\ ClosesAsRuled(rec, monitor.obj[rec.asset][1],
                                           cycles'[c].prices[rec.asset])]_vars

\* The engine has closed its position at breakeven with a profit of 0 while the
\* exit-monitor, on its own copy of the position, has closed it as a WIN.
C30_Witness ==
    /\ \E i \in 1..Len(tradeDatabase.trades) :
          /\ tradeDatabase.trades[i].outcome = "BREAKEVEN"
          /\ tradeDatabase.trades[i].profit = 0
          /\ tradeDatabase.trades[i].setup.reachedTarget1
    /\ monitor.running
    /\ \E i \in 1..Len(monitor.trades) :
          /\ monitor.trades[i].outcome = "WIN"
          /\ monitor.trades[i].closedBy = "AUTONOMOUS_EXIT_ENGINE"
          /\ monitor.trades[i].setup.reachedTarget1

\* C31: for a window of at least 3 samples calculateMomentum returns the average of the
\* last 3 changes clamped to [-2, 2] (here in sixths of a percent: twice their sum,
\* clamped to [-12, 12]), and the direction is BULLISH exactly when that value is
\* positive, BEARISH otherwise.
C31_MomentumIsClampedAverage ==
    probe.phase = "momentum"
        => LET w == probe.changes
               n == Len(w)
               average == 2 * (w[n - 2] + w[n - 1] + w[n])
               clamped == IF average < -12 THEN -12 ELSE IF average > 12 THEN 12
                          ELSE average
           IN  /\ probe.momentum = clamped
               /\ probe.direction = "BULLISH" <=> clamped > 0
               /\ probe.direction = "BEARISH" <=> clamped <= 0

\* A tick has stopped in this step at the await named pc, handling the asset, and a POST
\* of the engine with the engine's state after the step is in flight.
SavedAt(pc, a) ==
    /\ \E t \in TickIds : /\ ticks'[t] # ticks[t]
                          /\ ticks'[t].pc = pc
                          /\ Assets[ticks'[t].i] = a
    /\ \E m \in net' : /\ m.from = "engine"
                       /\ m.blob.activeTrades = activeTrades'
                       /\ m.blob.performance = tradeDatabase'.performance
                       /\ Len(m.blob.trades) = Len(tradeDatabase'.trades)
                       /\ \A i \in 1..Len(m.blob.trades) :
                             /\ m.blob.trades[i].setup = tradeDatabase'.trades[i].setup
                             /\ m.blob.trades[i].outcome = tradeDatabase'.trades[i].outcome

\* C32: in the primary engine every transition of a position (its opening, the arming
\* at target 1, the append of its TradeRecord and the clearing of its slot) happens in
\* a step that ends at the await of a save() whose blob holds the state after the
\* transition, the tick still at that asset.
C32_TransitionsAreSaved ==
    [][\A a \in Asset :
          /\ (activeTrades[a] = <<>> /\ activeTrades'[a] # <<>>) => SavedAt("gen_save", a)
          /\ (/\ activeTrades[a] # <<>> /\ activeTrades'[a] # <<>>
              /\ ~activeTrades[a][1].reachedTarget1
              /\ activeTrades'[a][1].reachedTarget1) => SavedAt("t1_save", a)
          /\ (/\ Len(tradeDatabase'.trades) > Len(tradeDatabase.trades)
              /\ Last(tradeDatabase'.trades).asset = a) => SavedAt("rec_save", a)
          /\ (activeTrades[a] # <<>> /\ activeTrades'[a] = <<>>)
                => SavedAt("clr_save", a)]_vars

\* A tick is at the await of the save that follows the clearing of a slot: the POST in
\* flight has the slot empty and the TradeRecord of the closed position.
C32_Witness ==
    /\ \E t \in TickIds : ticks[t].pc = "clr_save"
    /\ activeTrades["btc"] = <<>>
    /\ Len(tradeDatabase.trades) = 1
    /\ \E m \in net : /\ m.from = "engine"
                      /\ m.blob.activeTrades["btc"] = <<>>
                      /\ Len(m.blob.trades) = 1

\* C33: for the same stored state, active position and outcome, a manual close produces
\* the TradeRecord profit and the performance aggregate (counters, winRate, totalProfit)
\* that the Outcome Recorder's recordTradeOutcome produces.
C33_ManualCloseRecordsAsRecorder ==
    [][(ManualTakes /\ manual'[1].data # <<>> /\ manual'[1].outcome \in Outcomes)
          => LET data == manual'[1].data[1]
                 M == [trades |-> store.trades, perf |-> store.performance,
                       obj |-> store.activeTrades]
                 R == MonitorRecord(M, manual'[1].asset, manual'[1].outcome)
             IN  /\ Last(data.trades).profit = Last(R.trades).profit
                 /\ data.performance.totalTrades = R.perf.totalTrades
                 /\ data.performance.winners = R.perf.winners
                 /\ data.performance.losers = R.perf.losers
                 /\ data.performance.breakevenTrades = R.perf.breakevenTrades
                 /\ data.performance.winRate = R.perf.winRate
                 /\ data.performance.totalProfit = R.perf.totalProfit]_vars

\* C34: in the primary engine a tick that comes back from the save of a TradeRecord and
\* clears the asset's slot finds in it the position it closed, the one whose TradeRecord
\* it appended: it never empties a slot that holds a position admitted in the meantime.
C34_ClearTakesClosedPosition ==
    [][\A t \in TickIds :
          LET a == Assets[ticks[t].i]
          IN  (/\ ticks[t].pc = "rec_save"
               /\ ticks'[t] # ticks[t]
               /\ activeTrades[a] # <<>>
               /\ activeTrades'[a] = <<>>)
                  => /\ activeTrades[a][1].recorded
                     /\ HasRecord(tradeDatabase.trades, a, activeTrades[a][1])]_vars

\* C35: with the primary engine and the exit-monitor running, the reachedTarget1 flag
\* of the position in an active slot of the store never goes from true to false while
\* the same position stays in that slot.
C35_StoredTarget1NeverReverts ==
    [][\A a \in Asset :
          (store.activeTrades[a] # <<>> /\ store'.activeTrades[a] # <<>>)
              => Target1Kept(store.activeTrades[a][1], store'.activeTrades[a][1])]_vars

\* C36: given the same position with an entry band and the same prices, updateTradeStatus
\* and checkTradeExits take the same transition at every price and leave the same
\* position (reachedTarget1, stop, originalStop) or the same empty slot.
C36_SameTransitions ==
    probe.phase = "exits"
        => /\ probe.taken[1] = probe.taken[2]
           /\ (probe.engine = <<>>) = (probe.monitor = <<>>)
           /\ probe.engine # <<>>
                  => /\ probe.engine[1].reachedTarget1 = probe.monitor[1].reachedTarget1
                     /\ probe.engine[1].stop = probe.monitor[1].stop
                     /\ probe.engine[1].originalStop = probe.monitor[1].originalStop

C36_Witness ==
    /\ probe.phase = "exits"
    /\ probe.n = 2
    /\ probe.taken = <<"BREAKEVEN", "BREAKEVEN">>
    /\ probe.engine = <<>>
    /\ probe.monitor = <<>>

\* C37: once started, the exit-monitor holds only positions it loaded at startup: its
\* trades and slots change in its own cycles only, a slot it holds keeps the position it
\* loaded, an empty slot stays empty, and every blob it saves carries only positions it
\* holds; so a position the engine opens later is never in its slots nor in its blobs.
MonitorSaves == \E c \in CycleIds : cycles[c].pc = "post" /\ cycles'[c].pc = "write"

C38_EntryBandAroundPrice ==
    probe.phase = "levels"
        => LET l == probe.levels
               band == (l.entryPrice * 5) \div 10000
           IN  /\ l.entryMin <= l.entryPrice
               /\ l.entryPrice <= l.entryMax
               /\ l.entryMin = l.entryPrice - band
               /\ l.entryMax = l.entryPrice + band
               /\ (l.entryMin + l.entryMax) \div 2 = l.entryPrice

\* C39: the trend label the engine holds for an asset after detectMarketCondition is the
\* label of that asset's own window when the window has 5 samples or more, and the label
\* held before the call when it has fewer: the other asset's window has no part in it.
C39_RegimeOfOwnWindow ==
    probe.phase = "regime"
        => \A a \in Asset :
              LET w == probe.history[a]
              IN  probe.marketCondition =
                      IF Len(w) >= TrendSamples THEN TrendLabel(Recent(w), w[Len(w)])
                      ELSE probe.before

\* C40: under both presets, an asset with a positive price, an empty slot and an elapsed
\* cooldown is admitted: the confidence is in 8..20 and never below the preset's minimum.
C40_GateNeverRejects ==
    (probe.phase = "scan" /\ probe.price > 0 /\ ~probe.occupied /\ probe.elapsed)
        => /\ probe.confidence \in 8..20
           /\ probe.confidence >= RISK_CONFIGS[probe.mode].minConfidence
           /\ probe.admitted

C40_Witness ==
    /\ probe.phase = "scan"
    /\ probe.mode = "conservative"
    /\ probe.regime = <<"RANGING", "LOW">>
    /\ probe.confidence = 8
    /\ probe.admitted

====
